---- MODULE Spec2Model ----
(***************************************************************************)
(* Aether generation orchestration engine (crates/aether-core).            *)
(*                                                                         *)
(* Texts (prompts, generated code, template content, cache keys) are       *)
(* strings; a string is read character by character with SubSeq(s, i, i).  *)
(***************************************************************************)
EXTENDS Integers, Sequences, FiniteSets, TLC

(***************************************************************************)
(* Bounds of the model.                                                    *)
(***************************************************************************)
\* config.max_retries ranges over 0..MaxRetriesBound
MaxRetriesBound == 2
\* number of engine calls (render / render_incremental) in one behaviour
MaxRenders == 2
\* config.max_retries of the engines that render incrementally
MaxSessionRetries == 1

(***************************************************************************)
(* Text helpers.                                                           *)
(***************************************************************************)

\* the printable ASCII characters 32..95 and 97..126, in code order
AsciiLow == " !\"#$%&'()*+,-./0123456789:;<=>?@ABCDEFGHIJKLMNOPQRSTUVWXYZ[\\]^_"
AsciiHigh == "abcdefghijklmnopqrstuvwxyz{|}~"

CharAt(s, i) == SubSeq(s, i, i)

\* the byte of an ASCII character (str::as_bytes)
OrdTable ==
    [c \in {CharAt(AsciiLow, i) : i \in 1..Len(AsciiLow)}
            \cup {CharAt(AsciiHigh, i) : i \in 1..Len(AsciiHigh)} \cup {"\n"} |->
        IF c = "\n" THEN 10
        ELSE IF \E i \in 1..Len(AsciiLow) : CharAt(AsciiLow, i) = c
             THEN 31 + (CHOOSE i \in 1..Len(AsciiLow) : CharAt(AsciiLow, i) = c)
             ELSE 96 + (CHOOSE i \in 1..Len(AsciiHigh) : CharAt(AsciiHigh, i) = c)]

StrBytes(s) == [i \in 1..Len(s) |-> OrdTable[CharAt(s, i)]]

(***************************************************************************)
(* StableHasher: 64-bit FNV-1a.  A u64 is kept as 8 little-endian byte     *)
(* limbs, so that multiplication wraps modulo 2^64 as wrapping_mul does.   *)
(***************************************************************************)
RECURSIVE BitXor(_, _)
BitXor(a, b) ==
    IF a = 0 THEN b
    ELSE IF b = 0 THEN a
    ELSE (((a % 2) + (b % 2)) % 2) + 2 * BitXor(a \div 2, b \div 2)

\* 14695981039346656037 = 0xcbf29ce484222325
FnvOffsetBasis == <<37, 35, 34, 132, 228, 156, 242, 203>>
\* 1099511628211 = 0x00000100000001b3
FnvPrime == <<179, 1, 0, 0, 0, 1, 0, 0>>

\* column k (1-based limb) of the schoolbook product a * b
MulColumn(a, b, k) ==
    LET RECURSIVE Sum(_)
        Sum(i) == IF i > k THEN 0 ELSE a[i] * b[k + 1 - i] + Sum(i + 1)
    IN  Sum(1)

\* self.0.wrapping_mul(b): the low 8 limbs of the product
WrappingMul(a, b) ==
    LET RECURSIVE Limbs(_, _)
        Limbs(k, carry) ==
            IF k > 8 THEN <<>>
            ELSE LET t == MulColumn(a, b, k) + carry
                 IN  <<t % 256>> \o Limbs(k + 1, t \div 256)
    IN  Limbs(1, 0)

\* one iteration of Hasher::write: xor the byte in, multiply by the prime
FnvStep(h, byte) == WrappingMul([h EXCEPT ![1] = BitXor(h[1], byte)], FnvPrime)

\* Hasher::write: the bytes in order; the fold is split in halves so that its
\* evaluation depth is logarithmic in the length
RECURSIVE WriteRange(_, _, _, _)
WriteRange(h, bytes, lo, hi) ==
    IF lo > hi THEN h
    ELSE IF lo = hi THEN FnvStep(h, bytes[lo])
    ELSE LET mid == (lo + hi) \div 2
             left == WriteRange(h, bytes, lo, mid)
         IN  IF Len(left) = 8 THEN WriteRange(left, bytes, mid + 1, hi) ELSE left
HasherWrite(h, bytes) == WriteRange(h, bytes, 1, Len(bytes))

\* impl Hash for str: the bytes, then the terminator 0xff
HashStr(h, s) == HasherWrite(h, StrBytes(s) \o <<255>>)

\* impl Hash for u32: the four bytes of the value (little endian)
HashU32(h, n) ==
    HasherWrite(h, <<n % 256, (n \div 256) % 256, (n \div 65536) % 256, (n \div 16777216) % 256>>)

\* format!("{:x}", u64): lower-case hex without leading zeros
HexDigits == "0123456789abcdef"
RECURSIVE HexOfLimbs(_, _)
HexOfLimbs(h, k) ==
    IF k = 0 THEN ""
    ELSE CharAt(HexDigits, (h[k] \div 16) + 1) \o CharAt(HexDigits, (h[k] % 16) + 1)
            \o HexOfLimbs(h, k - 1)
RECURSIVE StripZeros(_)
StripZeros(s) ==
    IF Len(s) > 1 /\ CharAt(s, 1) = "0" THEN StripZeros(SubSeq(s, 2, Len(s))) ELSE s
FormatHex(h) == StripZeros(HexOfLimbs(h, 8))


\* impl Hash for isize / usize (64-bit target): the eight bytes of the value
HashIsize(h, n) ==
    HasherWrite(h, <<n % 256, (n \div 256) % 256, 0, 0, 0, 0, 0, 0>>)

\* impl Hash for bool: one byte
HashBool(h, b) == HasherWrite(h, <<IF b THEN 1 ELSE 0>>)

(***************************************************************************)
(* Option<T> is a sequence of length 0 (None) or 1 (Some).                 *)
(***************************************************************************)
NoneOpt == <<>>
Some(v) == <<v>>
IsSome(o) == Len(o) = 1
UnwrapOr(o, d) == IF IsSome(o) THEN o[1] ELSE d

\* derived Hash for Option<String>: the discriminant, then the value
HashOptStr(h, o) == IF IsSome(o) THEN HashStr(HashIsize(h, 1), o[1]) ELSE HashIsize(h, 0)

(***************************************************************************)
(* Results and errors.                                                     *)
(***************************************************************************)
NoErr == [type |-> "none", slot |-> "", retries |-> 0, msg |-> ""]
Ok(v) == [ok |-> TRUE, val |-> v, err |-> NoErr]
Err(e) == [ok |-> FALSE, val |-> "", err |-> e]

SlotNotFound(name) == [type |-> "SlotNotFound", slot |-> name, retries |-> 0, msg |-> ""]
ProviderError(m) == [type |-> "ProviderError", slot |-> "", retries |-> 0, msg |-> m]
InjectionError(m) == [type |-> "InjectionError", slot |-> "", retries |-> 0, msg |-> m]
ValidationFailed(slot, error) ==
    [type |-> "ValidationFailed", slot |-> slot, retries |-> 0, msg |-> error]
MaxRetriesExceeded(slot, retries, last_error) ==
    [type |-> "MaxRetriesExceeded", slot |-> slot, retries |-> retries, msg |-> last_error]

\* AetherError's Display (e.to_string())
DisplayError(e) ==
    CASE e.type = "ProviderError" -> "AI provider error: " \o e.msg
      [] e.type = "InjectionError" -> "Injection error: " \o e.msg
      [] e.type = "SlotNotFound" -> "Slot '" \o e.slot \o "' not found in template"
      [] OTHER -> e.msg
\* Display of the ValidationFailed variant: it carries the diagnostic
DisplayValidationFailed(e) == "Validation failed for slot '" \o e.slot \o "': " \o e.msg
ErrorToString(e) ==
    IF e.type = "ValidationFailed" THEN DisplayValidationFailed(e) ELSE DisplayError(e)

(***************************************************************************)
(* Slot.                                                                   *)
(***************************************************************************)
KindNames == <<"Raw", "Function", "Class", "Html", "Css", "JavaScript", "Component", "Custom">>
Kind(tag) == [tag |-> tag, custom |-> ""]
CustomKind(s) == [tag |-> "Custom", custom |-> s]
KindDiscriminant(k) == (CHOOSE i \in 1..Len(KindNames) : KindNames[i] = k.tag) - 1

\* Slot::new
SlotNew(name, prompt) ==
    [name |-> name, prompt |-> prompt, kind |-> Kind("Raw"), constraints |-> NoneOpt,
     required |-> TRUE, default |-> NoneOpt, temperature |-> NoneOpt,
     model |-> NoneOpt, max_tokens |-> NoneOpt]
WithKind(slot, kind) == [slot EXCEPT !.kind = kind]
\* Slot::with_constraints
WithConstraints(slot, constraints) == [slot EXCEPT !.constraints = Some(constraints)]
\* SlotConstraints::new and SlotConstraints::test_harness
SlotConstraintsNew ==
    [max_lines |-> NoneOpt, max_chars |-> NoneOpt, required_imports |-> <<>>,
     forbidden_patterns |-> <<>>, language |-> NoneOpt, test_harness |-> NoneOpt,
     test_command |-> NoneOpt]
TestHarness(constraints, harness) == [constraints EXCEPT !.test_harness = Some(harness)]
\* Slot::optional
SlotOptional(slot, default) == [slot EXCEPT !.required = FALSE, !.default = Some(default)]

\* derived Hash for SlotKind: the discriminant, then Custom's string
HashKind(h, k) ==
    IF k.tag = "Custom" THEN HashStr(HashIsize(h, KindDiscriminant(k)), k.custom)
    ELSE HashIsize(h, KindDiscriminant(k))

\* impl Hash for Slot: name, prompt, kind, constraints, required, default and,
\* only when set, the temperature bits.  The model's slots carry no
\* constraints (None hashes as its discriminant) and temperatures are given
\* as their f32 bit pattern.
HashSlotNoPrompt(h, slot) ==
    LET h1 == HashStr(h, slot.name)
        h3 == HashKind(h1, slot.kind)
        h4 == HashIsize(h3, 0)
        h5 == HashBool(h4, slot.required)
        h6 == HashOptStr(h5, slot.default)
    IN  IF IsSome(slot.temperature) THEN HashU32(h6, slot.temperature[1]) ELSE h6
HashSlot(h, slot) ==
    LET h1 == HashStr(h, slot.name)
        h2 == HashStr(h1, slot.prompt)
        h3 == HashKind(h2, slot.kind)
        h4 == HashIsize(h3, 0)
        h5 == HashBool(h4, slot.required)
        h6 == HashOptStr(h5, slot.default)
    IN  IF IsSome(slot.temperature) THEN HashU32(h6, slot.temperature[1]) ELSE h6

(***************************************************************************)
(* Template: marker scanning (SLOT_PATTERN), parse_slots, find_locations,  *)
(* render.                                                                 *)
(***************************************************************************)
InRange(c, lo, hi) == c \in DOMAIN OrdTable /\ OrdTable[c] >= OrdTable[lo] /\ OrdTable[c] <= OrdTable[hi]
IsAlpha(c) == InRange(c, "a", "z") \/ InRange(c, "A", "Z")
IsNameStart(c) == IsAlpha(c) \/ c = "_"
IsNameChar(c) == IsNameStart(c) \/ InRange(c, "0", "9")

\* the first position >= i (1-based) whose character fails P, or Len(s) + 1
\* the end of the longest run of [a-zA-Z0-9_] / of [a-zA-Z] beginning at i
RECURSIVE SkipNameChars(_, _)
SkipNameChars(s, i) ==
    IF i <= Len(s) /\ IsNameChar(CharAt(s, i)) THEN SkipNameChars(s, i + 1) ELSE i
RECURSIVE SkipAlpha(_, _)
SkipAlpha(s, i) ==
    IF i <= Len(s) /\ IsAlpha(CharAt(s, i)) THEN SkipAlpha(s, i + 1) ELSE i

HasAt(s, i, lit) == i + Len(lit) - 1 <= Len(s) /\ SubSeq(s, i, i + Len(lit) - 1) = lit

\* A match of \{\{AI:([a-zA-Z_][a-zA-Z0-9_]*)(?::([a-zA-Z]+))?\}\} beginning at
\* the 1-based position i: <<>> when there is none, else one record with the
\* byte offsets start (inclusive) and end (exclusive) as Regex reports them.
MatchAt(s, i) ==
    IF ~(HasAt(s, i, "{{AI:") /\ i + 5 <= Len(s) /\ IsNameStart(CharAt(s, i + 5)))
    THEN <<>>
    ELSE LET j == SkipNameChars(s, i + 6)
             name == SubSeq(s, i + 5, j - 1)
             k == IF HasAt(s, j, ":") THEN SkipAlpha(s, j + 1) ELSE j
         IN  IF k > j + 1 /\ HasAt(s, k, "}}")
             THEN <<[name |-> name, start |-> i - 1, end |-> k + 1,
                     kind |-> Some(SubSeq(s, j + 1, k - 1))]>>
             ELSE IF HasAt(s, j, "}}")
             THEN <<[name |-> name, start |-> i - 1, end |-> j + 1, kind |-> NoneOpt]>>
             ELSE <<>>

\* Regex::captures_iter: the leftmost non-overlapping matches, in order
RECURSIVE CapturesFrom(_, _)
CapturesFrom(s, i) ==
    IF i > Len(s) THEN <<>>
    ELSE LET m == MatchAt(s, i)
         IN  IF m = <<>> THEN CapturesFrom(s, i + 1)
             ELSE m \o CapturesFrom(s, m[1].end + 1)
CapturesIter(s) == CapturesFrom(s, 1)

LowerChar(c) ==
    IF InRange(c, "A", "Z") THEN CharAt(AsciiHigh, OrdTable[c] - 64) ELSE c
RECURSIVE ToLowercase(_)
ToLowercase(s) ==
    IF s = "" THEN "" ELSE LowerChar(CharAt(s, 1)) \o ToLowercase(SubSeq(s, 2, Len(s)))

\* Template::parse_kind
ParseKind(s) ==
    LET l == ToLowercase(s)
    IN  CASE l = "raw" -> Kind("Raw")
          [] l \in {"function", "fn"} -> Kind("Function")
          [] l \in {"class", "struct"} -> Kind("Class")
          [] l = "html" -> Kind("Html")
          [] l = "css" -> Kind("Css")
          [] l \in {"js", "javascript"} -> Kind("JavaScript")
          [] l = "component" -> Kind("Component")
          [] OTHER -> CustomKind(l)

\* Template::parse_slots: one default slot per marker name, a later marker of
\* the same name replacing the earlier entry
ParsedSlot(m) ==
    LET slot == SlotNew(m.name, "Generate code for: " \o m.name)
    IN  IF IsSome(m.kind) THEN WithKind(slot, ParseKind(m.kind[1])) ELSE slot
ParseSlots(content) ==
    LET caps == CapturesIter(content)
        names == {caps[i].name : i \in DOMAIN caps}
        last(n) == CHOOSE i \in DOMAIN caps :
                      caps[i].name = n /\ \A j \in DOMAIN caps : caps[j].name = n => j <= i
    IN  [n \in names |-> ParsedSlot(caps[last(n)])]

\* TemplateMetadata::default
MetadataDefault ==
    [description |-> NoneOpt, language |-> NoneOpt, author |-> NoneOpt, version |-> NoneOpt]

\* Template::new
TemplateNew(content) ==
    [content |-> content, name |-> "unnamed", slots |-> ParseSlots(content),
     metadata |-> MetadataDefault]

\* Template::with_name, Template::with_metadata
TemplateWithName(t, name) == [t EXCEPT !.name = name]
TemplateWithMetadata(t, metadata) == [t EXCEPT !.metadata = metadata]

\* Template::with_slot
TemplateWithSlotKeepFirst(t, name, prompt) ==
    IF name \in DOMAIN t.slots
    THEN t
    ELSE [t EXCEPT !.slots = [n \in DOMAIN t.slots \cup {name} |->
                                IF n = name THEN SlotNew(name, prompt) ELSE t.slots[n]]]
TemplateWithSlot(t, name, prompt) ==
    IF name \in DOMAIN t.slots
    THEN [t EXCEPT !.slots[name].prompt = prompt]
    ELSE [t EXCEPT !.slots = [n \in DOMAIN t.slots \cup {name} |->
                                IF n = name THEN SlotNew(name, prompt) ELSE t.slots[n]]]

\* Template::configure_slot
TemplateConfigureSlotOnly(t, slot) ==
    [t EXCEPT !.slots = [n \in {slot.name} |-> slot]]
TemplateConfigureSlot(t, slot) ==
    [t EXCEPT !.slots = [n \in DOMAIN t.slots \cup {slot.name} |->
                            IF n = slot.name THEN slot ELSE t.slots[n]]]

\* Template::find_locations: the matches sorted by start, descending
RECURSIVE Reverse(_)
Reverse(q) == IF q = <<>> THEN <<>> ELSE Reverse(Tail(q)) \o <<Head(q)>>
FindLocationsUnsorted(t) == CapturesIter(t.content)
FindLocations(t) == Reverse(CapturesIter(t.content))

\* String::replace_range(start..end, code), offsets 0-based, end exclusive
ReplaceRangeInPlace(s, start, end, code) ==
    SubSeq(s, 1, start) \o code \o SubSeq(s, start + Len(code) + 1, Len(s))
ReplaceRange(s, start, end, code) ==
    SubSeq(s, 1, start) \o code \o SubSeq(s, end + 1, Len(s))

\* Template::render
RECURSIVE RenderLoop(_, _, _, _)
RenderLoop(t, injections, locs, result) ==
    IF locs = <<>> THEN Ok(result)
    ELSE LET loc == Head(locs)
         IN  IF loc.name \in DOMAIN injections
             THEN RenderLoop(t, injections, Tail(locs),
                             ReplaceRange(result, loc.start, loc.end, injections[loc.name]))
             ELSE IF loc.name \in DOMAIN t.slots
             THEN IF t.slots[loc.name].required
                  THEN Err(SlotNotFound(loc.name))
                  ELSE RenderLoop(t, injections, Tail(locs),
                                  ReplaceRange(result, loc.start, loc.end,
                                               UnwrapOr(t.slots[loc.name].default, "")))
             ELSE Err(SlotNotFound(loc.name))
TemplateRenderAllRequired(t, injections) ==
    RenderLoop([t EXCEPT !.slots = [n \in DOMAIN t.slots |-> [t.slots[n] EXCEPT !.required = TRUE]]],
               injections, FindLocations(t), t.content)
TemplateRender(t, injections) == RenderLoop(t, injections, FindLocations(t), t.content)


(***************************************************************************)
(* Finite maps (HashMap / DashMap).                                        *)
(***************************************************************************)
EmptyMap == [k \in {} |-> ""]
Put(f, k, v) == [y \in DOMAIN f \cup {k} |-> IF y = k THEN v ELSE f[y]]

(***************************************************************************)
(* InjectionContext.                                                       *)
(***************************************************************************)
ContextNew == [project |-> NoneOpt, language |-> NoneOpt, framework |-> NoneOpt]
WithFramework(ctx, fw) == [ctx EXCEPT !.framework = Some(fw)]

RECURSIVE Join(_, _)
Join(parts, sep) ==
    IF parts = <<>> THEN ""
    ELSE IF Len(parts) = 1 THEN parts[1]
    ELSE parts[1] \o sep \o Join(Tail(parts), sep)

\* InjectionContext::to_prompt
ToPrompt(ctx) ==
    Join((IF IsSome(ctx.project) THEN <<"Project: " \o ctx.project[1]>> ELSE <<>>)
         \o (IF IsSome(ctx.language) THEN <<"Language: " \o ctx.language[1]>> ELSE <<>>)
         \o (IF IsSome(ctx.framework) THEN <<"Framework: " \o ctx.framework[1]>> ELSE <<>>),
         "\n")

\* Hash of the context as RenderSession::hash(&self.global_context) feeds it
\* to the hasher: field by field
HashContext(h, ctx) ==
    HashOptStr(HashOptStr(HashOptStr(h, ctx.project), ctx.language), ctx.framework)


(***************************************************************************)
(* AetherConfig.                                                           *)
(***************************************************************************)
DefaultMaxRetries == 2
DefaultToonThreshold == 2000
DefaultBackoffMs == 100

\* AetherConfig::default, with short prompt fragments
ConfigDefault ==
    [toon_enabled |-> FALSE, parallel |-> TRUE, max_retries |-> DefaultMaxRetries,
     auto_toon_threshold |-> Some(DefaultToonThreshold),
     prompt_toon_header |-> "[CONTEXT:TOON]",
     prompt_toon_note |-> "[TOON Protocol Note]",
     prompt_healing_feedback |-> "[SELF-HEALING FEEDBACK]\nERROR:\n",
     prompt_tdd_notice |-> "\n\nIMPORTANT: TDD mode.",
     retry_backoff_ms |-> DefaultBackoffMs]

\* should_use_toon with a strict comparison
ShouldUseToonStrict(config, context_length) ==
    IF config.toon_enabled THEN TRUE
    ELSE IF IsSome(config.auto_toon_threshold)
         THEN context_length > config.auto_toon_threshold[1]
         ELSE FALSE

\* AetherConfig::should_use_toon
ShouldUseToon(config, context_length) ==
    IF config.toon_enabled THEN TRUE
    ELSE IF IsSome(config.auto_toon_threshold)
         THEN context_length >= config.auto_toon_threshold[1]
         ELSE FALSE

(***************************************************************************)
(* Providers.                                                              *)
(***************************************************************************)
MockTokensUsed == 10

\* MockProvider::generate
MockGenerate(responses, request) ==
    [ok |-> TRUE,
     code |-> IF request.slot.name \in DOMAIN responses
              THEN responses[request.slot.name]
              ELSE "// Generated code for: " \o request.slot.name,
     tokens_used |-> Some(MockTokensUsed),
     err |-> NoErr]

\* what an external backend may answer: any text or any error of the world
ExtGenerate(w) ==
    {[ok |-> TRUE, code |-> t, tokens_used |-> NoneOpt, err |-> NoErr] : t \in w.texts}
    \cup {[ok |-> FALSE, code |-> "", tokens_used |-> NoneOpt, err |-> ProviderError(e)] :
            e \in w.errors}

(***************************************************************************)
(* Validators.                                                             *)
(***************************************************************************)
Valid == [ok |-> TRUE, valid |-> TRUE, diag |-> "", err |-> NoErr]
Invalid(d) == [ok |-> TRUE, valid |-> FALSE, diag |-> d, err |-> NoErr]
ValidatorErr(e) == [ok |-> FALSE, valid |-> FALSE, diag |-> "", err |-> e]

\* tests::FailingValidator
FailingValidate(kind, code) == Invalid("Always fails")
FailingFormat(kind, code) == Ok(code)

\* an external validator.  Its formatter is a function of the text: here one
\* that reformats "x", fails on "y" and returns any other text as it is;
\* validate_with_slot may accept, reject with a diagnostic, or fail.
Reformatted(code) == code \o "\n"
ExtFormat(w, code) ==
    IF ~w.reformat THEN Ok(code)
    ELSE IF code = "x" THEN Ok(Reformatted(code))
    ELSE IF code = "y" THEN Err(InjectionError("rustfmt failed"))
    ELSE Ok(code)
ExtValidate(w) ==
    {Valid} \cup {Invalid(d) : d \in w.diags}
            \cup {ValidatorErr(InjectionError(m)) : m \in w.verrs}

(***************************************************************************)
(* generate_with_healing_static: the per-slot generate-validate-heal loop. *)
(***************************************************************************)
\* GenerationRequest built by generate_all / generate_parallel / generate_slot
MakeRequest(slot, context) ==
    [slot |-> slot, context |-> Some(context), system_prompt |-> NoneOpt,
     model |-> slot.model, max_tokens |-> slot.max_tokens]

\* a key that also covers the slot's name
CacheKeyWithSlotName(request) ==
    "aether:cache:" \o
    FormatHex(HashU32(HashStr(HashStr(HashStr(HashStr(FnvOffsetBasis, request.slot.name),
                                              request.slot.prompt),
                                      UnwrapOr(request.context, "")),
                              UnwrapOr(request.model, "")),
                      UnwrapOr(request.max_tokens, 0)))

\* step 0: the cache key, a stable hash of prompt, context, model, max_tokens
CacheKey(request) ==
    "aether:cache:" \o
    FormatHex(HashU32(HashStr(HashStr(HashStr(FnvOffsetBasis, request.slot.prompt),
                                      UnwrapOr(request.context, "")),
                              UnwrapOr(request.model, "")),
                      UnwrapOr(request.max_tokens, 0)))

(***************************************************************************)
(* generate_all: the context sent with every request of a render.          *)
(***************************************************************************)
\* Toon::serialize of the context's JSON value (an object whose unset
\* options are null, with no imports, variables or extras)
ToonScalar(o) == IF IsSome(o) THEN o[1] ELSE "~"
ToonSerializeContext(ctx) ==
    "available_imports[0]:\n[]" \o "extra:\n"
    \o "framework: " \o ToonScalar(ctx.framework) \o "\n"
    \o "language: " \o ToonScalar(ctx.language) \o "\n"
    \o "project: " \o ToonScalar(ctx.project) \o "\n"
    \o "style: ~\n" \o "surrounding_code: ~\n" \o "variables:\n"

\* the compressed form built from the per-call context when there is one
GenerateAllContextOfExtra(eng, extra) ==
    LET base_context == IF IsSome(extra)
                        THEN ToPrompt(eng.global_context) \o "\n" \o ToPrompt(extra[1])
                        ELSE ToPrompt(eng.global_context)
        should_use_toon == ShouldUseToon(eng.config, Len(base_context))
        toon_ctx == ToonSerializeContext(IF IsSome(extra) THEN extra[1] ELSE eng.global_context)
        context_prompt == IF should_use_toon
                          THEN eng.config.prompt_toon_header \o "\n" \o toon_ctx
                               \o "\n\n" \o eng.config.prompt_toon_note
                          ELSE base_context
    IN  IF IsSome(eng.validator) THEN context_prompt \o eng.config.prompt_tdd_notice
        ELSE context_prompt

\* lines 285-330
GenerateAllContext(eng, extra) ==
    LET base_context == IF IsSome(extra)
                        THEN ToPrompt(eng.global_context) \o "\n" \o ToPrompt(extra[1])
                        ELSE ToPrompt(eng.global_context)
        should_use_toon ==
            eng.config.toon_enabled
            \/ (IF IsSome(eng.config.auto_toon_threshold)
                THEN Len(base_context) >= eng.config.auto_toon_threshold[1] ELSE FALSE)
        context_prompt ==
            IF should_use_toon
            THEN eng.config.prompt_toon_header \o "\n" \o ToonSerializeContext(eng.global_context)
                    \o "\n\n" \o eng.config.prompt_toon_note
            ELSE base_context
    IN  IF IsSome(eng.validator) THEN context_prompt \o eng.config.prompt_tdd_notice
        ELSE context_prompt

\* generate_slot, lines 571-577: the request of an incremental miss
GenerateSlotRequest(eng, slot) == MakeRequest(slot, ToPrompt(eng.global_context))

(***************************************************************************)
(* The engines, templates and worlds the model starts from: an engine as   *)
(* its builders construct it, a template as Template::new and with_slot    *)
(* build it.                                                               *)
(***************************************************************************)
MockResponses == [content |-> "<p>Hello World</p>", h |-> "/* Header v1 */"]

Providers == {[kind |-> "mock", responses |-> MockResponses],
              [kind |-> "ext", responses |-> EmptyMap]}

EngineOf(provider, validator, cch, observer, retries, parallel, ctx) ==
    [provider |-> provider, validator |-> validator, cache |-> cch, observer |-> observer,
     config |-> [ConfigDefault EXCEPT !.max_retries = retries, !.parallel = parallel],
     global_context |-> ctx]

Engines(validators, parallels) ==
    {EngineOf(p, v, c, o, r, par, ContextNew) :
        p \in Providers, v \in validators, c \in {NoneOpt, Some("exact")},
        o \in {NoneOpt, Some("observer")}, r \in 0..MaxRetriesBound, par \in parallels}

SessionEngines ==
    {EngineOf(p, v, c, NoneOpt, r, FALSE, ctx) :
        p \in Providers, v \in {NoneOpt, Some("ext")}, c \in {NoneOpt, Some("exact")},
        r \in 0..MaxSessionRetries, ctx \in {ContextNew, WithFramework(ContextNew, "react")}}

OneSlotTemplate == TemplateWithSlot(TemplateNew("<div>{{AI:content}}</div>"), "content", "p1")
TwoSlotTemplate ==
    TemplateWithSlot(TemplateWithSlot(TemplateNew("{{AI:h}}\nContent\n{{AI:f}}"),
                                      "h", "p1"), "f", "p2")

RichWorld == [texts |-> {"x", "y"}, errors |-> {"e1", "e2"}, diags |-> {"d1", "d2"},
              verrs |-> {"v1"}, reformat |-> TRUE]
PoorWorld == [texts |-> {"x", "y"}, errors |-> {"e1"}, diags |-> {"d1"},
              verrs |-> {}, reformat |-> FALSE]

\* between two engine calls the caller may give a slot one of these prompts
EditPrompts == {"p1", "p2"}

(***************************************************************************)
(* Hashes are functions of their input.  The hashes of the slots, contexts *)
(* and requests that the templates and engines above can produce are       *)
(* tabulated once; any other input is hashed when it is met.               *)
(***************************************************************************)
SlotUniverse ==
    {SlotNew(n, p) : n \in {"content", "h", "f"}, p \in EditPrompts}
ContextUniverse == {ContextNew, WithFramework(ContextNew, "react")}
\* a Function slot with a test harness, given the prompt of another slot
HarnessSlot ==
    WithConstraints(WithKind(SlotNew("f", "p1"), Kind("Function")),
                    TestHarness(SlotConstraintsNew, "assert {{CODE}}"))
RequestUniverse ==
    {MakeRequest(sl, c) :
        sl \in SlotUniverse \cup {HarnessSlot},
        c \in {ToPrompt(ctx) : ctx \in ContextUniverse}
              \cup {ToPrompt(ContextNew) \o ConfigDefault.prompt_tdd_notice}}

SlotHashTable == [sl \in SlotUniverse |-> HashSlot(FnvOffsetBasis, sl)]
ContextHashTable == [ctx \in ContextUniverse |-> HashContext(FnvOffsetBasis, ctx)]
CacheKeyTable == [r \in RequestUniverse |-> CacheKey(r)]

\* StableHasher::hash / RenderSession::hash
StableHashSlot(slot) ==
    IF slot \in SlotUniverse THEN SlotHashTable[slot] ELSE HashSlot(FnvOffsetBasis, slot)
StableHashContext(ctx) ==
    IF ctx \in ContextUniverse THEN ContextHashTable[ctx]
    ELSE HashContext(FnvOffsetBasis, ctx)
\* lines 452-462 as the loop evaluates them
CacheKeyOf(request) ==
    IF request \in RequestUniverse THEN CacheKeyTable[request] ELSE CacheKey(request)


NoResult == [ok |-> FALSE, code |-> "", cache_hit |-> FALSE, err |-> NoErr]
TaskOk(code, hit) == [ok |-> TRUE, code |-> code, cache_hit |-> hit, err |-> NoErr]
TaskErr(e) == [ok |-> FALSE, code |-> "", cache_hit |-> FALSE, err |-> e]

\* the locals of one run of the loop, with the record of its attempts
TaskIdle(pc) ==
    [pc |-> pc, request |-> MakeRequest(SlotNew("", ""), ""), attempt |-> 0,
     previous_code |-> NoneOpt, last_error |-> NoneOpt, cache_key |-> NoneOpt,
     result |-> NoResult, calls |-> 0, hist |-> <<>>, writes |-> <<>>,
     session_key |-> <<>>]

\* lines 452-476: the cache probe; a hit returns at once, tagged as a hit
CacheProbeMiss(eng, cch, key) == FALSE
CacheProbe(eng, cch, key) == IsSome(eng.cache) /\ IsSome(key) /\ key[1] \in DOMAIN cch
BeginHealing(eng, cch, request) ==
    LET key == IF IsSome(eng.cache) THEN Some(CacheKeyOf(request)) ELSE NoneOpt
        t == [TaskIdle("generate") EXCEPT !.request = request, !.cache_key = key]
    IN  IF CacheProbe(eng, cch, key)
        THEN [t EXCEPT !.pc = "done", !.result = TaskOk(cch[key[1]], TRUE)]
        ELSE t

\* line 478: for attempt in 0..=max_retries
AttemptsRemainOffByOne(attempt, max_retries) == attempt <= max_retries
AttemptsRemain(attempt, max_retries) == attempt < max_retries

\* line 486: the backoff slept before the next attempt
Backoff(config, attempt) == config.retry_backoff_ms * (attempt + 1)

\* lines 494-503: the stuck error carries the index of the aborting attempt
StuckMessage == "AI stuck in loop (generated identical code)"
StuckErrorCountingAttempts(slot, attempt) ==
    MaxRetriesExceeded(slot.name, attempt + 1, StuckMessage)
StuckError(slot, attempt) == MaxRetriesExceeded(slot.name, attempt, StuckMessage)
IsStuck(previous_code, code) == IsSome(previous_code) /\ previous_code[1] = code

\* lines 537-542: the feedback appended to the working prompt
HealedPromptWithoutPrefix(config, prompt, err_msg) == prompt \o "\n\n" \o err_msg
HealedPromptInPlace(config, prompt, err_msg) == prompt
HealedPrompt(config, prompt, err_msg) ==
    prompt \o "\n\n" \o config.prompt_healing_feedback \o err_msg

\* lines 556-561: the error after the loop ran out of attempts
FinalErrorCountingAttempts(config, slot, last_error) ==
    MaxRetriesExceeded(slot.name, config.max_retries + 1, "")
FinalErrorUnwrapped(config, slot, last_error) == last_error[1]
FinalError(config, slot, last_error) ==
    MaxRetriesExceeded(slot.name, config.max_retries,
                       IF IsSome(last_error) THEN ErrorToString(last_error[1])
                       ELSE "Healing failed without specific error")

\* line 490: with no attempt left the last backend error is returned as it is
BackendTerminalWrapped(config, slot, last_error) == FinalError(config, slot, last_error)
BackendTerminal(config, slot, last_error) == last_error[1]

\* line 513: validate_with_slot(...)? returns the validator's own error
ValidatorTerminalWrapped(config, slot, err) ==
    MaxRetriesExceeded(slot.name, config.max_retries, ErrorToString(err))
ValidatorTerminal(config, slot, err) == err

\* line 509-511: formatting is best-effort
ApplyFormatOrEmpty(code, fo) == IF fo.ok THEN fo.val ELSE ""
ApplyFormatRaw(code, fo) == code
ApplyFormat(code, fo) == IF fo.ok THEN fo.val ELSE code

\* line 504: the text remembered for the next comparison is the backend's
\* text, taken before the formatter runs
PreviousCodeFormatted(code, fo) == ApplyFormat(code, fo)
PreviousCode(code, fo) == code

Attempt(t, out, stuck, fmt, code, verdict, diag, sleep) ==
    [prompt |-> t.request.slot.prompt, attempt |-> t.attempt, ok |-> out.ok,
     text |-> IF out.ok THEN out.code ELSE out.err.msg,
     stuck |-> stuck, fmt |-> fmt, code |-> code, verdict |-> verdict, diag |-> diag,
     sleep_ms |-> sleep]

Finish(t, a, result) ==
    [t EXCEPT !.pc = "done", !.result = result, !.hist = Append(t.hist, a)]

\* an accepted text written under the key of the working (healed) request
WriteThroughHealedKey(eng, t, code) ==
    IF IsSome(eng.cache) /\ IsSome(t.cache_key)
    THEN [t EXCEPT !.writes = Append(t.writes, <<CacheKeyOf(t.request), code>>)]
    ELSE t
\* an accepted text that is never written to the cache
WriteThroughNever(eng, t, code) == t
\* the cache write-through of an accepted text (lines 517-519, 549-551)
WriteThrough(eng, t, code) ==
    IF IsSome(eng.cache) /\ IsSome(t.cache_key)
    THEN [t EXCEPT !.writes = Append(t.writes, <<t.cache_key[1], code>>)]
    ELSE t

\* a healing notification numbered with the loop's zero-based index
OnHealingStepZeroBased(attempt, diag) ==
    [ev |-> "healing", attempt |-> attempt, text |-> diag]
\* lines 526-528: the healing notification of a rejected attempt
OnHealingStep(attempt, diag) ==
    [ev |-> "healing", attempt |-> attempt + 1, text |-> diag]

\* One iteration of the loop from the backend's answer `out` on (lines
\* 480-553), with the validator's answers fo (format) and vo (validate).
\* Returns the task after the iteration and the healing notifications.
LoopBody(eng, t, out, fo, vo) ==
    LET config == eng.config
        slot == t.request.slot
        more == AttemptsRemain(t.attempt, config.max_retries)
    IN
    IF ~out.ok THEN
        LET t1 == [t EXCEPT !.last_error = Some(out.err)]
        IN  IF more
            THEN [task |-> [t1 EXCEPT !.attempt = t.attempt + 1, !.pc = "generate",
                               !.hist = Append(t.hist,
                                   Attempt(t, out, FALSE, "none", "", "none", "",
                                           Backoff(config, t.attempt)))],
                  heal |-> <<>>]
            ELSE [task |-> Finish(t1, Attempt(t, out, FALSE, "none", "", "none", "", 0),
                                  TaskErr(BackendTerminal(config, slot, t1.last_error))),
                  heal |-> <<>>]
    ELSE IF IsStuck(t.previous_code, out.code) THEN
        [task |-> Finish(t, Attempt(t, out, TRUE, "none", "", "none", "", 0),
                         TaskErr(StuckError(slot, t.attempt))),
         heal |-> <<>>]
    ELSE
        LET t1 == [t EXCEPT !.previous_code = Some(PreviousCode(out.code, fo))]
        IN
        IF ~IsSome(eng.validator) THEN
            [task |-> Finish(WriteThrough(eng, t1, out.code),
                             Attempt(t, out, FALSE, "none", out.code, "none", "", 0),
                             TaskOk(out.code, FALSE)),
             heal |-> <<>>]
        ELSE
            LET code == ApplyFormat(out.code, fo)
                fmt == IF fo.ok THEN "ok" ELSE "err"
            IN
            IF ~vo.ok THEN
                [task |-> Finish(t1, Attempt(t, out, FALSE, fmt, code, "verr", "", 0),
                                 TaskErr(ValidatorTerminal(config, slot, vo.err))),
                 heal |-> <<>>]
            ELSE IF vo.valid THEN
                [task |-> Finish(WriteThrough(eng, t1, code),
                                 Attempt(t, out, FALSE, fmt, code, "valid", "", 0),
                                 TaskOk(code, FALSE)),
                 heal |-> <<>>]
            ELSE
                LET t2 == [t1 EXCEPT !.last_error = Some(ValidationFailed(slot.name, vo.diag))]
                    a == Attempt(t, out, FALSE, fmt, code, "invalid", vo.diag, 0)
                    ev == <<OnHealingStep(t.attempt, vo.diag)>>
                IN  IF more
                    THEN [task |-> [t2 EXCEPT
                                      !.request.slot.prompt =
                                          HealedPrompt(config, slot.prompt, vo.diag),
                                      !.attempt = t.attempt + 1, !.pc = "generate",
                                      !.hist = Append(t.hist, a)],
                          heal |-> ev]
                    ELSE [task |-> Finish(t2, a, TaskErr(FinalError(config, slot, t2.last_error))),
                          heal |-> ev]

(***************************************************************************)
(* State.                                                                  *)
(***************************************************************************)
VARIABLES
    engine,     \* the InjectionEngine: provider, validator, cache, observer, config, context
    world,      \* what the external backend and validator may answer
    template,   \* the caller's Template
    cache,      \* the storage of the engine's cache: key -> text
    session,    \* RenderSession.results: <<slot hash, context hash>> -> text
    call,       \* the engine call in progress (render or render_incremental)
    task,       \* per slot: the locals of its generation
    obs,        \* per slot: the notifications its observer received
    renders     \* engine calls started so far

vars == <<engine, world, template, cache, session, call, task, obs, renders>>

Slots == DOMAIN template.slots

IdleCall ==
    [op |-> "none", status |-> "idle", context_prompt |-> "", injections |-> EmptyMap,
     seen |-> {}, result |-> Ok(""), session0 |-> EmptyMap, context_hash |-> <<>>,
     extra |-> NoneOpt]

\* the engine calls that run generate_all
GenerateAllOps == {"render", "render_with_context"}

\* the observer's notifications, delivered only when one is attached
Notify(eng, log, events) == IF IsSome(eng.observer) THEN log \o events ELSE log
OnStart(request) == [ev |-> "start", attempt |-> 0, text |-> request.slot.prompt]
OnSuccess(result) == [ev |-> "success", attempt |-> 0, text |-> result.code]
OnFailure(e) == [ev |-> "failure", attempt |-> 0, text |-> ErrorToString(e)]

\* on_success / on_failure of the wrapper around a finished generation
Terminal(t) ==
    IF t.pc # "done" THEN <<>>
    ELSE IF t.result.ok THEN <<OnSuccess(t.result)>> ELSE <<OnFailure(t.result.err)>>

\* a cache that keeps the first text written under a key
RECURSIVE ApplyWritesKeepFirst(_, _)
ApplyWritesKeepFirst(cch, writes) ==
    IF writes = <<>> THEN cch
    ELSE ApplyWritesKeepFirst(IF writes[1][1] \in DOMAIN cch THEN cch
                              ELSE Put(cch, writes[1][1], writes[1][2]),
                              Tail(writes))

\* the cache after the writes a task made in one step (Cache::set)
RECURSIVE ApplyWrites(_, _)
ApplyWrites(cch, writes) ==
    IF writes = <<>> THEN cch
    ELSE ApplyWrites(Put(cch, writes[1][1], writes[1][2]), Tail(writes))
NewWrites(old, new) == SubSeq(new.writes, Len(old.writes) + 1, Len(new.writes))

Active(s) == task[s].pc \in {"generate", "awaiting"}
NoneActive == \A s \in Slots : ~Active(s) /\ (task[s].pc = "done" => s \in call.seen)

\* on_start, then generate_with_healing_static up to its first await
StartGeneration(s, key, request) ==
    LET t == [BeginHealing(engine, cache, request) EXCEPT !.session_key = key]
    IN  /\ task' = [task EXCEPT ![s] = t]
        /\ obs' = [obs EXCEPT ![s] = Notify(engine, @, <<OnStart(request)>> \o Terminal(t))]

(***************************************************************************)
(* Engine calls.                                                           *)
(***************************************************************************)
\* engine.render(&template): generate_all, then template.render
Render ==
    /\ call.status # "running"
    /\ renders < MaxRenders
    /\ renders' = renders + 1
    /\ call' = [IdleCall EXCEPT !.op = "render", !.status = "running",
                                !.context_prompt = GenerateAllContext(engine, NoneOpt),
                                !.session0 = session]
    /\ task' = [s \in Slots |-> TaskIdle(IF engine.config.parallel THEN "spawned" ELSE "none")]
    /\ obs' = [s \in Slots |-> <<>>]
    /\ UNCHANGED <<engine, world, template, cache, session>>

\* lines 256-261: the session key of a slot
SessionKey(slot, context_hash) == <<StableHashSlot(slot), context_hash>>

\* engine.render_incremental(&template, &mut session)
RenderIncremental ==
    /\ call.status # "running"
    /\ renders < MaxRenders
    /\ renders' = renders + 1
    /\ call' = [IdleCall EXCEPT !.op = "render_incremental", !.status = "running",
                                !.context_hash = StableHashContext(engine.global_context),
                                !.session0 = session]
    /\ task' = [s \in Slots |-> TaskIdle("none")]
    /\ obs' = [s \in Slots |-> <<>>]
    /\ UNCHANGED <<engine, world, template, cache, session>>

\* generate_all, sequential branch (lines 337-352): the next slot of the
\* iteration over template.slots, a HashMap
SeqStart(s) ==
    /\ call.status = "running" /\ call.op \in GenerateAllOps /\ ~engine.config.parallel
    /\ task[s].pc = "none"
    /\ NoneActive
    /\ StartGeneration(s, <<>>, MakeRequest(template.slots[s], call.context_prompt))
    /\ UNCHANGED <<engine, world, template, cache, session, call, renders>>

\* generate_parallel: a spawned task starts running (lines 393-407)
TaskStart(s) ==
    /\ call.status = "running" /\ call.op \in GenerateAllOps /\ engine.config.parallel
    /\ task[s].pc = "spawned"
    /\ StartGeneration(s, <<>>, MakeRequest(template.slots[s], call.context_prompt))
    /\ UNCHANGED <<engine, world, template, cache, session, call, renders>>

\* render_incremental, lines 259-271: a session hit reuses the stored text,
\* a miss generates the slot
IncVisit(s) ==
    /\ call.status = "running" /\ call.op = "render_incremental"
    /\ task[s].pc = "none"
    /\ NoneActive
    /\ LET key == SessionKey(template.slots[s], call.context_hash)
       IN  IF key \in DOMAIN session
           THEN /\ task' = [task EXCEPT ![s].pc = "hit", ![s].session_key = key]
                /\ call' = [call EXCEPT !.injections = Put(@, s, session[key]),
                                        !.seen = @ \cup {s}]
                /\ obs' = obs
           ELSE /\ StartGeneration(s, key, GenerateSlotRequest(engine, template.slots[s]))
                /\ call' = call
    /\ UNCHANGED <<engine, world, template, cache, session, renders>>

\* ctx.provider.generate(request.clone()) is called (line 480)
CallBackendEager(s) ==
    /\ call.status = "running"
    /\ task[s].pc \in {"generate", "awaiting"}
    /\ task[s].calls <= engine.config.max_retries
    /\ task' = [task EXCEPT ![s].pc = "awaiting", ![s].calls = @ + 1]
    /\ UNCHANGED <<engine, world, template, cache, session, call, obs, renders>>
CallBackend(s) ==
    /\ call.status = "running"
    /\ task[s].pc = "generate"
    /\ task' = [task EXCEPT ![s].pc = "awaiting", ![s].calls = @ + 1]
    /\ UNCHANGED <<engine, world, template, cache, session, call, obs, renders>>

BackendAnswers(request) ==
    IF engine.provider.kind = "mock"
    THEN {MockGenerate(engine.provider.responses, request)}
    ELSE ExtGenerate(world)

FormatAnswers(t, out) ==
    IF ~out.ok \/ ~IsSome(engine.validator) THEN {Ok("")}
    ELSE IF engine.validator[1] = "failing"
         THEN {FailingFormat(t.request.slot.kind, out.code)}
         ELSE {ExtFormat(world, out.code)}

ValidateAnswers(t, out) ==
    IF ~out.ok \/ ~IsSome(engine.validator) THEN {Valid}
    ELSE IF engine.validator[1] = "failing"
         THEN {FailingValidate(t.request.slot.kind, out.code)}
         ELSE ExtValidate(world)

\* the backend answers and the loop runs on to its next await or its return
BackendReply(s) ==
    /\ call.status = "running"
    /\ task[s].pc = "awaiting"
    /\ \E out \in BackendAnswers(task[s].request) :
       \E fo \in FormatAnswers(task[s], out) :
       \E vo \in ValidateAnswers(task[s], out) :
         LET r == LoopBody(engine, task[s], out, fo, vo)
         IN  /\ task' = [task EXCEPT ![s] = r.task]
             /\ cache' = ApplyWrites(cache, NewWrites(task[s], r.task))
             /\ obs' = [obs EXCEPT ![s] = Notify(engine, @, r.heal \o Terminal(r.task))]
    /\ UNCHANGED <<engine, world, template, session, call, renders>>

\* JoinSet dropped: every task that has not finished is aborted
AbortRest(tk) ==
    [s \in DOMAIN tk |->
        IF tk[s].pc \in {"spawned", "generate", "awaiting"}
        THEN [tk[s] EXCEPT !.pc = "aborted"] ELSE tk[s]]

\* line 269: session.results.insert(key, code.clone())
SessionInsertFresh(results, key, code) == Put(EmptyMap, key, code)
SessionInsert(results, key, code) == Put(results, key, code)

\* the engine call takes the result r of slot s: an Ok is inserted into the
\* injections, an Err returns from the call (`return Err(e)`, `??`, `?`)
\* the failure of a slot that no marker references is passed over
JoinedReferencedOnly(c, s, r) ==
    LET caps == CapturesIter(template.content)
    IN  IF r.ok
        THEN [c EXCEPT !.injections = Put(@, s, r.code), !.seen = @ \cup {s}]
        ELSE IF \E i \in DOMAIN caps : caps[i].name = s
        THEN [c EXCEPT !.status = "returned", !.seen = @ \cup {s}, !.result = Err(r.err)]
        ELSE [c EXCEPT !.seen = @ \cup {s}]
\* a failure is recorded and the iteration goes on to the next slot
JoinedKeepRunning(c, s, r) ==
    IF r.ok
    THEN [c EXCEPT !.injections = Put(@, s, r.code), !.seen = @ \cup {s}]
    ELSE [c EXCEPT !.seen = @ \cup {s}, !.result = Err(r.err)]
JoinedSkippingFailures(c, s, r) ==
    [c EXCEPT !.injections = Put(@, s, r.code), !.seen = @ \cup {s}]
Joined(c, s, r) ==
    IF r.ok
    THEN [c EXCEPT !.injections = Put(@, s, r.code), !.seen = @ \cup {s}]
    ELSE [c EXCEPT !.status = "returned", !.seen = @ \cup {s}, !.result = Err(r.err)]

\* The result of a finished generation reaches the engine call: the match of
\* generate_all (lines 353-366), join_next of generate_parallel (425-428), or
\* lines 268-270 of render_incremental.
Collect(s) ==
    /\ call.status = "running"
    /\ task[s].pc = "done"
    /\ s \notin call.seen
    /\ call' = Joined(call, s, task[s].result)
    /\ IF task[s].result.ok
       THEN /\ session' = IF call.op = "render_incremental"
                          THEN SessionInsert(session, task[s].session_key, task[s].result.code)
                          ELSE session
            /\ task' = task
       ELSE /\ session' = session
            /\ task' = IF call.op \in GenerateAllOps /\ engine.config.parallel
                       THEN AbortRest(task) ELSE task
    /\ UNCHANGED <<engine, world, template, cache, obs, renders>>

\* every slot has been generated: template.render(&injections)
Assemble ==
    /\ call.status = "running"
    /\ call.seen = Slots
    /\ call' = [call EXCEPT !.status = "returned",
                            !.result = TemplateRender(template, call.injections)]
    /\ UNCHANGED <<engine, world, template, cache, session, task, obs, renders>>

\* between two engine calls the caller changes one slot's prompt
\* (template.with_slot)
WithSlot(s, p) ==
    /\ call.status = "returned"
    /\ renders < MaxRenders
    /\ template.slots[s].prompt # p
    /\ template' = TemplateWithSlot(template, s, p)
    /\ call' = [call EXCEPT !.status = "idle"]
    /\ UNCHANGED <<engine, world, cache, session, task, obs, renders>>

\* engine.render, any number of times on one engine and template
Next ==
    \/ Render
    \/ \E s \in Slots : SeqStart(s)
    \/ \E s \in Slots : TaskStart(s)
    \/ \E s \in Slots : CallBackend(s)
    \/ \E s \in Slots : BackendReply(s)
    \/ \E s \in Slots : Collect(s)
    \/ Assemble

\* engine.render_incremental on one session, the caller editing prompts
\* between the calls
NextSession ==
    \/ RenderIncremental
    \/ \E s \in Slots : IncVisit(s)
    \/ \E s \in Slots : CallBackend(s)
    \/ \E s \in Slots : BackendReply(s)
    \/ \E s \in Slots : Collect(s)
    \/ Assemble
    \/ \E s \in Slots, p \in EditPrompts : WithSlot(s, p)

(***************************************************************************)
(* Initial states: an engine as its builders construct it, a template as   *)
(* Template::new and with_slot build it, an empty cache and session.       *)
(***************************************************************************)
InitRest ==
    /\ cache = EmptyMap
    /\ session = EmptyMap
    /\ call = IdleCall
    /\ task = [s \in Slots |-> TaskIdle("none")]
    /\ obs = [s \in Slots |-> <<>>]
    /\ renders = 0

Init ==
    /\ \/ /\ template = OneSlotTemplate
          /\ world = RichWorld
          /\ engine \in Engines({NoneOpt, Some("ext"), Some("failing")}, BOOLEAN)
       \/ /\ template = TwoSlotTemplate
          /\ world = PoorWorld
          /\ engine \in Engines({NoneOpt, Some("ext")}, BOOLEAN)
    /\ InitRest

InitSession ==
    /\ template = TwoSlotTemplate
    /\ world = PoorWorld
    /\ engine \in SessionEngines
    /\ InitRest

Spec == Init /\ [][Next]_vars
SpecSession == InitSession /\ [][NextSession]_vars

(***************************************************************************)
(* The template on its own: Template::new on a content, then the builders  *)
(* in any order, then Template::render with an injection map.              *)
(***************************************************************************)
TemplateContents ==
    {"<div>{{AI:a}}</div>",
     "{{AI:a}}-{{AI:b:html}}",
     "{{AI:a:css}} and {{AI:a}}!",
     "{{AI:a}}{{AI:b}}{{AI:a}}",
     "{{AI:}} {{AI:9x}} {AI:a}"}
BuilderNames == {"a", "b", "z"}
ConfiguredSlots ==
    {SlotOptional(SlotNew(n, "q"), "DEF") : n \in {"a", "z"}}
        \cup {WithKind(SlotNew("b", "q"), Kind("Function"))}
Metadatas == {[MetadataDefault EXCEPT !.language = Some("html")]}
InjectedTexts == {"", "x", "12345678", "{{AI:b}} longer"}
\* the injection maps: each of a, b supplied with a text or not, z supplied or not
InjectionMaps ==
    {[n \in ns |-> IF n = "z" THEN "zz" ELSE IF n = "a" THEN ta ELSE tb] :
        ns \in SUBSET BuilderNames, ta \in InjectedTexts, tb \in InjectedTexts}

\* the builders consume the template and return it; call remembers the
\* operation applied last and its arguments
BuildWithSlot(n, p) ==
    /\ call.status = "idle"
    /\ template' = TemplateWithSlot(template, n, p)
    /\ call' = [call EXCEPT !.op = "with_slot", !.injections = Put(EmptyMap, n, p)]
    /\ UNCHANGED <<engine, world, cache, session, task, obs, renders>>

BuildConfigureSlot(slot) ==
    /\ call.status = "idle"
    /\ template' = TemplateConfigureSlot(template, slot)
    /\ call' = [call EXCEPT !.op = "configure_slot",
                            !.injections = Put(EmptyMap, slot.name, slot.prompt)]
    /\ UNCHANGED <<engine, world, cache, session, task, obs, renders>>

BuildWithName(name) ==
    /\ call.status = "idle"
    /\ template' = TemplateWithName(template, name)
    /\ call' = [call EXCEPT !.op = "with_name", !.injections = EmptyMap]
    /\ UNCHANGED <<engine, world, cache, session, task, obs, renders>>

BuildWithMetadata(metadata) ==
    /\ call.status = "idle"
    /\ template' = TemplateWithMetadata(template, metadata)
    /\ call' = [call EXCEPT !.op = "with_metadata", !.injections = EmptyMap]
    /\ UNCHANGED <<engine, world, cache, session, task, obs, renders>>

\* template.render(&injections)
RenderTemplate(injections) ==
    /\ call.status = "idle"
    /\ call' = [call EXCEPT !.op = "template_render", !.status = "returned",
                            !.injections = injections,
                            !.result = TemplateRender(template, injections)]
    /\ UNCHANGED <<engine, world, template, cache, session, task, obs, renders>>

NextTemplate ==
    \/ \E n \in BuilderNames, p \in EditPrompts : BuildWithSlot(n, p)
    \/ \E slot \in ConfiguredSlots : BuildConfigureSlot(slot)
    \/ BuildWithName("page")
    \/ \E md \in Metadatas : BuildWithMetadata(md)
    \/ \E injections \in InjectionMaps : RenderTemplate(injections)

InitTemplate ==
    /\ template \in {TemplateNew(c) : c \in TemplateContents}
    /\ world = PoorWorld
    /\ engine = EngineOf([kind |-> "mock", responses |-> MockResponses], NoneOpt, NoneOpt,
                         NoneOpt, DefaultMaxRetries, FALSE, ContextNew)
    /\ cache = EmptyMap
    /\ session = EmptyMap
    /\ call = IdleCall
    /\ task = EmptyMap
    /\ obs = EmptyMap
    /\ renders = 0

SpecTemplate == InitTemplate /\ [][NextTemplate]_vars

(***************************************************************************)
(* The caches on their own (cache.rs): ExactCache, SemanticCache and the   *)
(* TieredCache over both, driven by get and set.  The embedding model is   *)
(* external: its vector for a prompt is given by a table and a call to it  *)
(* may fail.  Vectors have small non-negative integer components, and the  *)
(* comparisons of cosine similarities are made on their squares.           *)
(***************************************************************************)
CacheKeys == {"k1", "k2", "k3"}
CacheTexts == {"v1", "v2"}
\* k1 and k2 are within the threshold of each other, k3 is far from both
EmbeddingOf == [k \in CacheKeys |->
                   IF k = "k1" THEN <<10, 0>> ELSE IF k = "k2" THEN <<10, 1>> ELSE <<0, 10>>]
\* SemanticCache::new: threshold 0.90, in hundredths
SimilarityThreshold == 90

Dot(v1, v2) == v1[1] * v2[1] + v1[2] * v2[2]
\* cosine_similarity(v1, v2) >= threshold
SimilarEnough(v1, v2, threshold) ==
    (100 * 100) * (Dot(v1, v2) * Dot(v1, v2)) >=
        (threshold * threshold) * (Dot(v1, v1) * Dot(v2, v2))
\* cosine_similarity(q, a) > cosine_similarity(q, b)
MoreSimilar(q, a, b) ==
    (Dot(q, a) * Dot(q, a)) * Dot(b, b) > (Dot(q, b) * Dot(q, b)) * Dot(a, a)

\* ExactCache
ExactGet(storage, prompt) ==
    IF prompt \in DOMAIN storage THEN Some(storage[prompt]) ELSE NoneOpt
ExactSet(storage, prompt, response) == Put(storage, prompt, response)

\* SemanticCache::get: None when the embedding fails; else the response of a
\* stored entry of greatest similarity among those at or over the threshold
\* (the first such entry met in the iteration over the DashMap)
SemanticGet(storage, prompt, embedded) ==
    IF ~embedded THEN {NoneOpt}
    ELSE LET q == EmbeddingOf[prompt]
             near == {k \in DOMAIN storage :
                         SimilarEnough(q, storage[k].embedding, SimilarityThreshold)}
             best == {k \in near :
                         \A j \in near : ~MoreSimilar(q, storage[j].embedding,
                                                      storage[k].embedding)}
         IN  IF near = {} THEN {NoneOpt} ELSE {Some(storage[k].response) : k \in best}
\* SemanticCache::set: nothing is stored when the embedding fails
SemanticSet(storage, prompt, response, embedded) ==
    IF embedded
    THEN Put(storage, prompt, [embedding |-> EmbeddingOf[prompt], response |-> response])
    ELSE storage

\* impl Cache for TieredCache: the possible answers of get with the tiers it
\* consulted, and the cache after set
TieredGet(c, prompt, embedded) ==
    IF IsSome(ExactGet(c.exact, prompt))
    THEN {[result |-> ExactGet(c.exact, prompt), consulted |-> {"exact"}]}
    ELSE {[result |-> r, consulted |-> {"exact", "semantic"}] :
              r \in SemanticGet(c.semantic, prompt, embedded)}
TieredSet(c, prompt, response, embedded) ==
    [exact |-> ExactSet(c.exact, prompt, response),
     semantic |-> SemanticSet(c.semantic, prompt, response, embedded)]

CacheCall(op, prompt, response, result, consulted) ==
    [op |-> op, status |-> "returned", prompt |-> prompt, response |-> response,
     result |-> result, consulted |-> consulted]

\* cache.set(prompt, response)
CacheSet(prompt, response, embedded) ==
    /\ cache' = TieredSet(cache, prompt, response, embedded)
    /\ call' = CacheCall("set", prompt, response, NoneOpt, {"exact", "semantic"})
    /\ UNCHANGED <<engine, world, template, session, task, obs, renders>>

\* cache.get(prompt)
CacheGet(prompt, embedded) ==
    /\ \E g \in TieredGet(cache, prompt, embedded) :
          call' = CacheCall("get", prompt, "", g.result, g.consulted)
    /\ UNCHANGED <<engine, world, template, cache, session, task, obs, renders>>

NextCache ==
    \/ \E k \in CacheKeys, v \in CacheTexts, embedded \in BOOLEAN : CacheSet(k, v, embedded)
    \/ \E k \in CacheKeys, embedded \in BOOLEAN : CacheGet(k, embedded)

\* TieredCache::new
InitCache ==
    /\ cache = [exact |-> EmptyMap, semantic |-> EmptyMap]
    /\ call = CacheCall("new", "", "", NoneOpt, {})
    /\ world = PoorWorld
    /\ engine = EngineOf([kind |-> "mock", responses |-> MockResponses], NoneOpt,
                         Some("tiered"), NoneOpt, DefaultMaxRetries, FALSE, ContextNew)
    /\ template = OneSlotTemplate
    /\ session = EmptyMap
    /\ task = EmptyMap
    /\ obs = EmptyMap
    /\ renders = 0

SpecCache == InitCache /\ [][NextCache]_vars

(***************************************************************************)
(* The TOON codec (toon.rs).  A serde_json Value is a record tagged by t;  *)
(* an object is the sequence of its fields in the order of its Map (key    *)
(* order), and numbers are i64 integers.                                   *)
(***************************************************************************)
VNull == [t |-> "null"]
VBool(b) == [t |-> "bool", b |-> b]
VNum(n) == [t |-> "num", n |-> n]
VStr(str) == [t |-> "str", s |-> str]
VObj(fields) == [t |-> "obj", fields |-> fields]
VArr(items) == [t |-> "arr", items |-> items]
Field(k, v) == [k |-> k, v |-> v]

\* char::is_whitespace on the model's texts
IsSpace(c) == c \in {" ", "\t", "\n", "\r"}
RECURSIVE TrimStart(_)
TrimStart(str) ==
    IF str # "" /\ IsSpace(CharAt(str, 1)) THEN TrimStart(SubSeq(str, 2, Len(str))) ELSE str
RECURSIVE TrimEnd(_)
TrimEnd(str) ==
    IF str # "" /\ IsSpace(CharAt(str, Len(str)))
    THEN TrimEnd(SubSeq(str, 1, Len(str) - 1)) ELSE str
\* str::trim
Trim(str) == TrimEnd(TrimStart(str))
\* line.chars().take_while(|c| c.is_whitespace()).count()
IndentOf(line) == Len(line) - Len(TrimStart(line))
StartsWith(str, prefix) ==
    Len(str) >= Len(prefix) /\ SubSeq(str, 1, Len(prefix)) = prefix
EndsWith(str, suffix) ==
    Len(str) >= Len(suffix) /\ SubSeq(str, Len(str) - Len(suffix) + 1, Len(str)) = suffix
\* str::find: the 1-based index of the first occurrence, 0 when there is none
FindStr(str, pat) ==
    LET hits == {i \in 1..(Len(str) - Len(pat) + 1) : SubSeq(str, i, i + Len(pat) - 1) = pat}
    IN  IF hits = {} THEN 0 ELSE CHOOSE i \in hits : \A j \in hits : i <= j
\* str::split on a separator
RECURSIVE SplitOn(_, _)
SplitOn(str, sep) ==
    LET i == FindStr(str, sep)
    IN  IF i = 0 THEN <<str>>
        ELSE <<SubSeq(str, 1, i - 1)>> \o SplitOn(SubSeq(str, i + Len(sep), Len(str)), sep)
\* str::replace
ReplaceAll(str, from, to) == Join(SplitOn(str, from), to)
\* "  ".repeat(indent)
RECURSIVE Pad(_)
Pad(indent) == IF indent = 0 THEN "" ELSE "  " \o Pad(indent - 1)

\* i64's Display and FromStr
DigitChars == "0123456789"
IsDigit(c) == InRange(c, "0", "9")
RECURSIVE NatToString(_)
NatToString(n) ==
    IF n < 10 THEN CharAt(DigitChars, n + 1)
    ELSE NatToString(n \div 10) \o CharAt(DigitChars, (n % 10) + 1)
IntToString(n) == IF n < 0 THEN "-" \o NatToString(0 - n) ELSE NatToString(n)
RECURSIVE ParseNat(_, _)
ParseNat(str, acc) ==
    IF str = "" THEN acc
    ELSE ParseNat(SubSeq(str, 2, Len(str)), acc * 10 + (FindStr(DigitChars, CharAt(str, 1)) - 1))
\* s.parse::<i64>(): an optional sign and at least one digit, nothing else
\* (the model's digit strings are short, so none overflows)
IsI64(str) ==
    LET body == IF str # "" /\ CharAt(str, 1) \in {"+", "-"}
                THEN SubSeq(str, 2, Len(str)) ELSE str
    IN  body # "" /\ \A i \in 1..Len(body) : IsDigit(CharAt(body, i))
ParseI64(str) ==
    IF CharAt(str, 1) = "-" THEN 0 - ParseNat(SubSeq(str, 2, Len(str)), 0)
    ELSE IF CharAt(str, 1) = "+" THEN ParseNat(SubSeq(str, 2, Len(str)), 0)
    ELSE ParseNat(str, 0)

\* Toon::serialize_flat
SerializeFlat(v) ==
    CASE v.t = "str" -> ReplaceAll(v.s, ",", "\\,")
      [] v.t = "num" -> IntToString(v.n)
      [] v.t = "bool" -> (IF v.b THEN "T" ELSE "F")
      [] OTHER -> "."

\* the value of the first field named k, for Map::get
FieldGet(fields, k) ==
    LET hits == {i \in DOMAIN fields : fields[i].k = k}
    IN  IF hits = {} THEN NoneOpt ELSE Some(fields[CHOOSE i \in hits : TRUE].v)

\* Toon::serialize, serialize_object and serialize_array
RECURSIVE Serialize(_), SerializeObject(_, _), SerializeArray(_, _),
          SerializeFields(_, _, _), SerializeItems(_, _, _), SerializeRows(_, _, _, _)
SerializeFields(fields, i, indent) ==
    IF i > Len(fields) THEN ""
    ELSE LET k == fields[i].k
             v == fields[i].v
             line == CASE v.t = "obj" ->
                            Pad(indent) \o k \o ":\n" \o SerializeObject(v.fields, indent + 1)
                       [] v.t = "arr" ->
                            Pad(indent) \o k \o "[" \o IntToString(Len(v.items)) \o "]:\n"
                                \o SerializeArray(v.items, indent + 1)
                       [] OTHER -> Pad(indent) \o k \o ": " \o Serialize(v) \o "\n"
         IN  line \o SerializeFields(fields, i + 1, indent)
SerializeObject(fields, indent) == SerializeFields(fields, 1, indent)
\* the rows of the tabular form: one per item that is an object
SerializeRows(arr, i, keys, indent) ==
    IF i > Len(arr) THEN ""
    ELSE LET item == arr[i]
             cell(k) == IF IsSome(FieldGet(item.fields, k))
                        THEN SerializeFlat(FieldGet(item.fields, k)[1]) ELSE "~"
             row == IF item.t = "obj"
                    THEN Pad(indent) \o Join([j \in DOMAIN keys |-> cell(keys[j])], ",") \o "\n"
                    ELSE ""
         IN  row \o SerializeRows(arr, i + 1, keys, indent)
\* the fallback form: one "- value" line per item
SerializeItems(arr, i, indent) ==
    IF i > Len(arr) THEN ""
    ELSE Pad(indent) \o "- " \o Trim(Serialize(arr[i])) \o "\n"
             \o SerializeItems(arr, i + 1, indent)
SerializeArray(arr, indent) ==
    IF arr = <<>> THEN "[]"
    ELSE IF arr[1].t = "obj"
    THEN LET keys == [j \in DOMAIN arr[1].fields |-> arr[1].fields[j].k]
         IN  Pad(indent) \o "{" \o Join(keys, ",") \o "}:\n" \o SerializeRows(arr, 1, keys, indent)
    ELSE SerializeItems(arr, 1, indent)
Serialize(v) ==
    CASE v.t = "obj" -> SerializeObject(v.fields, 0)
      [] v.t = "arr" -> SerializeArray(v.items, 0)
      [] v.t = "str" -> v.s
      [] v.t = "num" -> IntToString(v.n)
      [] v.t = "bool" -> (IF v.b THEN "T" ELSE "F")
      [] OTHER -> "~"

\* Toon::parse_primitive.  No text of the model is a float literal that is
\* not an integer literal, so the f64 branch is never taken.
ParsePrimitive(str) ==
    CASE str = "~" -> VNull
      [] str = "T" -> VBool(TRUE)
      [] str = "F" -> VBool(FALSE)
      [] OTHER -> IF IsI64(str) THEN VNum(ParseI64(str))
                  ELSE VStr(ReplaceAll(str, "\\,", ","))

\* Map::insert: a key already present keeps its place and takes the value
MapInsert(fields, k, v) ==
    IF \E i \in DOMAIN fields : fields[i].k = k
    THEN [i \in DOMAIN fields |-> IF fields[i].k = k THEN Field(k, v) ELSE fields[i]]
    ELSE Append(fields, Field(k, v))

\* str::trim_start_matches('{') and str::trim_end_matches("}:")
RECURSIVE TrimStartMatches(_, _)
TrimStartMatches(str, pat) ==
    IF pat # "" /\ StartsWith(str, pat)
    THEN TrimStartMatches(SubSeq(str, Len(pat) + 1, Len(str)), pat) ELSE str
RECURSIVE TrimEndMatches(_, _)
TrimEndMatches(str, pat) ==
    IF pat # "" /\ EndsWith(str, pat)
    THEN TrimEndMatches(SubSeq(str, 1, Len(str) - Len(pat)), pat) ELSE str

\* Toon::parse_list from line idx on: the value and the index of the next line
RECURSIVE ParseList(_, _, _, _)
ParseList(lines, idx, base_indent, arr) ==
    IF idx > Len(lines) \/ IndentOf(lines[idx]) < base_indent
    THEN [v |-> VArr(arr), idx |-> idx]
    ELSE LET trimmed == Trim(lines[idx])
         IN  ParseList(lines, idx + 1, base_indent,
                       IF StartsWith(trimmed, "- ")
                       THEN Append(arr, ParsePrimitive(SubSeq(trimmed, 3, Len(trimmed))))
                       ELSE arr)

\* one row of the tabular form under the header's keys
RECURSIVE RowObject(_, _, _, _)
RowObject(keys, values, i, fields) ==
    IF i > Len(keys) THEN VObj(fields)
    ELSE RowObject(keys, values, i + 1,
                   MapInsert(fields, keys[i],
                             IF i <= Len(values) THEN values[i] ELSE VNull))
\* Toon::parse_tabular, the rows from line idx on (the lines are never blank)
RECURSIVE ParseRows(_, _, _, _, _, _)
ParseRows(lines, idx, start_idx, base_indent, keys, arr) ==
    IF idx > Len(lines) THEN [v |-> VArr(arr), idx |-> idx]
    ELSE IF /\ IndentOf(lines[idx]) <= base_indent
            /\ idx # start_idx + 1
            /\ IndentOf(lines[idx]) < base_indent
    THEN [v |-> VArr(arr), idx |-> idx]
    ELSE LET cells == SplitOn(Trim(lines[idx]), ",")
             values == [j \in DOMAIN cells |-> ParsePrimitive(Trim(cells[j]))]
         IN  ParseRows(lines, idx + 1, start_idx, base_indent, keys,
                       Append(arr, RowObject(keys, values, 1, <<>>)))
ParseTabular(lines, start_idx, base_indent) ==
    LET header == Trim(lines[start_idx])
        keys_str == TrimEndMatches(TrimStartMatches(header, "{"), "}:")
        parts == SplitOn(keys_str, ",")
        keys == [j \in DOMAIN parts |-> Trim(parts[j])]
    IN  ParseRows(lines, start_idx + 1, start_idx, base_indent, keys, <<>>)

\* Toon::parse_level and its loop over the lines of one object
RECURSIVE ParseLevel(_, _), ParseObject(_, _, _, _)
ParseObject(lines, idx, indent, fields) ==
    IF idx > Len(lines) \/ IndentOf(lines[idx]) < indent
    THEN [v |-> VObj(fields), idx |-> idx]
    ELSE IF IndentOf(lines[idx]) > indent
    THEN ParseObject(lines, idx + 1, indent, fields)
    ELSE LET line_trimmed == Trim(lines[idx])
             colon_idx == FindStr(line_trimmed, ":")
             key0 == Trim(SubSeq(line_trimmed, 1, colon_idx - 1))
             bracket_idx == FindStr(key0, "[")
             key == IF bracket_idx # 0 /\ EndsWith(key0, "]")
                    THEN SubSeq(key0, 1, bracket_idx - 1) ELSE key0
             val_part == Trim(SubSeq(line_trimmed, colon_idx + 1, Len(line_trimmed)))
         IN  IF colon_idx = 0 THEN ParseObject(lines, idx + 1, indent, fields)
             ELSE IF /\ val_part = "" /\ idx + 1 <= Len(lines)
                     /\ IndentOf(lines[idx + 1]) > IndentOf(lines[idx])
             THEN LET child == ParseLevel(lines, idx + 1)
                  IN  ParseObject(lines, child.idx, indent, MapInsert(fields, key, child.v))
             ELSE ParseObject(lines, idx + 1, indent,
                              MapInsert(fields, key, ParsePrimitive(val_part)))
ParseLevel(lines, start_idx) ==
    IF start_idx > Len(lines) THEN [v |-> VNull, idx |-> start_idx]
    ELSE LET indent == IndentOf(lines[start_idx])
             trimmed == Trim(lines[start_idx])
         IN  IF StartsWith(trimmed, "{") /\ FindStr(trimmed, "}:") # 0
             THEN ParseTabular(lines, start_idx, indent)
             ELSE IF StartsWith(trimmed, "- ")
             THEN ParseList(lines, start_idx, indent, <<>>)
             ELSE ParseObject(lines, start_idx, indent, <<>>)

\* Toon::deserialize: the lines that are not blank, parsed from the first
Deserialize(input) ==
    LET lines == SelectSeq(SplitOn(input, "\n"), LAMBDA l : Trim(l) # "")
    IN  IF lines = <<>> THEN Ok(VNull) ELSE Ok(ParseLevel(lines, 1).v)

\* The value trees the codec is run on: scalars, objects of scalars, nested
\* objects, arrays of scalars, arrays of objects of one shape, and the value
\* of tests::test_toon_roundtrip.
ToonScalars ==
    {VNull, VBool(TRUE), VBool(FALSE), VNum(1), VNum(1024), VNum(-3),
     VStr("Aether"), VStr("main.rs"), VStr("T"), VStr("12"), VStr("a,b"), VStr("")}
ToonRows ==
    {VObj(<<Field("name", n), Field("size", z)>>) :
        n \in {VStr("main.rs"), VStr("a,b"), VNull}, z \in {VNum(1024), VBool(TRUE)}}
RoundTripOriginal ==
    VObj(<<Field("active", VBool(TRUE)),
           Field("files", VArr(<<VObj(<<Field("name", VStr("main.rs")), Field("size", VNum(1024))>>),
                                 VObj(<<Field("name", VStr("lib.rs")), Field("size", VNum(2048))>>)>>)),
           Field("null_val", VNull),
           Field("project", VStr("Aether")),
           Field("tags", VArr(<<VStr("ai"), VStr("rust"), VStr("security")>>)),
           Field("version", VNum(1))>>)
ToonValues ==
    ToonScalars
    \cup {VObj(<<Field("a", x)>>) : x \in ToonScalars}
    \cup {VObj(<<Field("a", x), Field("b", VObj(<<Field("c", y)>>)), Field("d", x)>>) :
             x \in {VNum(1), VStr("Aether")}, y \in {VNull, VStr("T"), VNum(-3)}}
    \cup {VArr(<<x, y>>) : x \in {VNum(1), VStr("Aether"), VStr("12")},
                           y \in {VBool(FALSE), VStr("a,b"), VNull}}
    \cup {VArr(<<r1, r2>>) : r1 \in ToonRows, r2 \in ToonRows}
    \cup {VObj(<<Field("files", VArr(<<r>>)), Field("tags", VArr(<<x>>)), Field("z", x)>>) :
             r \in ToonRows, x \in {VStr("ai"), VNum(1)}}
    \cup {VObj(<<Field("a", VObj(<<>>)), Field("b", VNum(1))>>),
          VObj(<<Field("a", VArr(<<>>)), Field("b", VNum(1))>>),
          VObj(<<>>), VArr(<<>>), RoundTripOriginal}

ToonCall(op, value, text, result) ==
    [op |-> op, status |-> "returned", value |-> value, text |-> text, result |-> result]

\* let serialized = Toon::serialize(&original)
ToonSerialize ==
    /\ call.op = "value"
    /\ call' = ToonCall("serialize", call.value, Serialize(call.value), NoneOpt)
    /\ UNCHANGED <<engine, world, template, cache, session, task, obs, renders>>

\* Toon::deserialize(&serialized)
ToonDeserialize ==
    /\ call.op = "serialize"
    /\ call' = ToonCall("deserialize", call.value, call.text, Some(Deserialize(call.text)))
    /\ UNCHANGED <<engine, world, template, cache, session, task, obs, renders>>

NextToon == ToonSerialize \/ ToonDeserialize

InitToon ==
    /\ \E v \in ToonValues : call = ToonCall("value", v, "", NoneOpt)
    /\ world = PoorWorld
    /\ engine = EngineOf([kind |-> "mock", responses |-> MockResponses], NoneOpt, NoneOpt,
                         NoneOpt, DefaultMaxRetries, FALSE, ContextNew)
    /\ template = OneSlotTemplate
    /\ cache = EmptyMap
    /\ session = EmptyMap
    /\ task = EmptyMap
    /\ obs = EmptyMap
    /\ renders = 0

SpecToon == InitToon /\ [][NextToon]_vars

(***************************************************************************)
(* engine.render on a template whose two slots carry the same prompt: slot *)
(* h as with_slot makes it, slot f a Function slot with a test harness.    *)
(***************************************************************************)
SharedPromptTemplate ==
    TemplateConfigureSlot(
        TemplateWithSlot(TemplateNew("{{AI:h}}\nContent\n{{AI:f}}"), "h", "p1"),
        HarnessSlot)

InitSharedKey ==
    /\ template = SharedPromptTemplate
    /\ world = PoorWorld
    /\ engine \in Engines({NoneOpt, Some("ext")}, BOOLEAN)
    /\ InitRest

SpecSharedKey == InitSharedKey /\ [][Next]_vars

(***************************************************************************)
(* engine.render on a template with a slot that no marker of its content   *)
(* references: slot f added by with_slot to the one-marker template.        *)
(***************************************************************************)
UnreferencedSlotTemplate == TemplateWithSlot(OneSlotTemplate, "f", "p2")

InitUnreferenced ==
    /\ template = UnreferencedSlotTemplate
    /\ world = PoorWorld
    /\ engine \in Engines({NoneOpt, Some("ext")}, BOOLEAN)
    /\ InitRest

SpecUnreferenced == InitUnreferenced /\ [][Next]_vars

(***************************************************************************)
(* engine.render and engine.render_with_context on engines whose           *)
(* configuration sets toon_enabled and auto_toon_threshold, the threshold  *)
(* at, below and above the lengths of the contexts.                        *)
(***************************************************************************)
ExtraContexts == ContextUniverse
ToonThresholds == {0, 1, 16, 17, 18, 33, 34}

ToonConfigs ==
    {[ConfigDefault EXCEPT !.toon_enabled = en, !.auto_toon_threshold = th,
                           !.max_retries = 0, !.parallel = FALSE] :
        en \in BOOLEAN, th \in {NoneOpt} \cup {Some(n) : n \in ToonThresholds}}

ContextEngines ==
    {[EngineOf([kind |-> "mock", responses |-> MockResponses], v, NoneOpt, NoneOpt,
               0, FALSE, ctx) EXCEPT !.config = c] :
        v \in {NoneOpt, Some("failing")}, ctx \in ContextUniverse, c \in ToonConfigs}

\* engine.render_with_context(&template, context): generate_all with the
\* additional context, then template.render
RenderWithContext(extra) ==
    /\ call.status # "running"
    /\ renders < MaxRenders
    /\ renders' = renders + 1
    /\ call' = [IdleCall EXCEPT !.op = "render_with_context", !.status = "running",
                                !.context_prompt = GenerateAllContext(engine, Some(extra)),
                                !.extra = Some(extra),
                                !.session0 = session]
    /\ task' = [s \in Slots |-> TaskIdle(IF engine.config.parallel THEN "spawned" ELSE "none")]
    /\ obs' = [s \in Slots |-> <<>>]
    /\ UNCHANGED <<engine, world, template, cache, session>>

NextContext ==
    \/ Render
    \/ \E extra \in ExtraContexts : RenderWithContext(extra)
    \/ \E s \in Slots : SeqStart(s)
    \/ \E s \in Slots : CallBackend(s)
    \/ \E s \in Slots : BackendReply(s)
    \/ \E s \in Slots : Collect(s)
    \/ Assemble

InitContext ==
    /\ template = OneSlotTemplate
    /\ world = PoorWorld
    /\ engine \in ContextEngines
    /\ InitRest

SpecContext == InitContext /\ [][NextContext]_vars

(***************************************************************************)
(* validation.rs: MultiValidator::validate_with_slot on a slot and a text. *)
(* The compilers, interpreters and the harness command are external: each  *)
(* run ends with success, with a failure status and its output, or cannot  *)
(* be run at all.                                                          *)
(***************************************************************************)
ToolOutcomes ==
    {[status |-> "ok", text |-> ""], [status |-> "fail", text |-> "E1"],
     [status |-> "err", text |-> "io"]}

\* a validator's external run: map_err(InjectionError)?, then the exit status
RunTool(prefix, tool) ==
    IF tool.status = "err" THEN ValidatorErr(InjectionError(tool.text))
    ELSE IF tool.status = "fail" THEN Invalid(prefix \o tool.text)
    ELSE Valid

\* str::contains
Contains(str, pat) == FindStr(str, pat) # 0

\* RustValidator::validate (its compile, test-compile and test-run stages
\* taken as one run)
RustValidate(kind, code, tool) ==
    IF kind.tag \in {"Function", "Class", "Component"}
    THEN RunTool("Rust Compilation Error:\n", tool) ELSE Valid
\* JsValidator::validate
JsValidate(kind, code, tool) ==
    IF kind.tag \in {"JavaScript", "Component"}
    THEN RunTool("JavaScript Syntax Error:\n", tool) ELSE Valid
\* PythonValidator::validate
PythonValidate(kind, code, tool) ==
    IF kind.tag \in {"Function", "Class"}
    THEN RunTool("Python Syntax Error:\n", tool) ELSE Valid

\* TddValidator::validate_with_slot
TddValidateWithSlot(slot, code, tool) ==
    IF ~IsSome(slot.constraints) THEN Valid
    ELSE IF ~IsSome(slot.constraints[1].test_harness) THEN Valid
    ELSE IF tool.status = "err" THEN ValidatorErr(InjectionError(tool.text))
    ELSE IF tool.status = "fail"
    THEN Invalid("TDD Test Failure:\nSTDOUT:\n" \o tool.text \o "\nSTDERR:\n")
    ELSE Valid

\* a composition that returns for the kinds without a language check
\* before it looks at the harness
MultiValidateWithSlotEarlyReturn(slot, code, lang_tool, tdd_tool) ==
    LET kind == slot.kind
        base_result ==
            IF kind.tag = "JavaScript" THEN JsValidate(kind, code, lang_tool)
            ELSE IF Contains(code, "def ") \/ (Contains(code, "import ") /\ Contains(code, ":"))
            THEN PythonValidate(kind, code, lang_tool)
            ELSE IF Contains(code, "function ") \/ Contains(code, "const ")
                    \/ Contains(code, "=>")
            THEN JsValidate(kind, code, lang_tool)
            ELSE RustValidate(kind, code, lang_tool)
    IN  IF kind.tag \in {"Html", "Css", "Raw"} THEN Valid
        ELSE IF ~base_result.ok THEN base_result
        ELSE IF ~base_result.valid THEN Invalid(base_result.diag)
        ELSE IF IsSome(slot.constraints) /\ IsSome(slot.constraints[1].test_harness)
        THEN TddValidateWithSlot(slot, code, tdd_tool)
        ELSE Valid

\* MultiValidator::validate_with_slot
MultiValidateWithSlot(slot, code, lang_tool, tdd_tool) ==
    LET kind == slot.kind
        base_result ==
            IF kind.tag = "JavaScript" THEN JsValidate(kind, code, lang_tool)
            ELSE IF kind.tag \in {"Html", "Css", "Raw"} THEN Valid
            ELSE IF Contains(code, "def ") \/ (Contains(code, "import ") /\ Contains(code, ":"))
            THEN PythonValidate(kind, code, lang_tool)
            ELSE IF Contains(code, "function ") \/ Contains(code, "const ")
                    \/ Contains(code, "=>")
            THEN JsValidate(kind, code, lang_tool)
            ELSE RustValidate(kind, code, lang_tool)
    IN  IF ~base_result.ok THEN base_result
        ELSE IF ~base_result.valid THEN Invalid(base_result.diag)
        ELSE IF IsSome(slot.constraints) /\ IsSome(slot.constraints[1].test_harness)
        THEN TddValidateWithSlot(slot, code, tdd_tool)
        ELSE Valid

ValidatorKinds ==
    {Kind(KindNames[i]) : i \in 1..(Len(KindNames) - 1)} \cup {CustomKind("vue")}
ValidatorConstraints ==
    {NoneOpt, Some(SlotConstraintsNew),
     Some(TestHarness(SlotConstraintsNew, "assert {{CODE}}"))}
ValidatorSlots ==
    {[WithKind(SlotNew("f", "p1"), k) EXCEPT !.constraints = c] :
        k \in ValidatorKinds, c \in ValidatorConstraints}
ValidatorCodes == {"def f(): pass", "import os", "import a: b", "const f = 1", "fn f() {}"}

ValidatorCall(op, slot, code, lang_tool, tdd_tool, result) ==
    [op |-> op, status |-> "returned", slot |-> slot, code |-> code,
     lang_tool |-> lang_tool, tdd_tool |-> tdd_tool, result |-> result]

\* validator.validate_with_slot(&slot, &code), the external runs ending in
\* any of their outcomes
ValidateWithSlot ==
    /\ call.op = "input"
    /\ \E lang_tool \in ToolOutcomes, tdd_tool \in ToolOutcomes :
          call' = ValidatorCall("validate_with_slot", call.slot, call.code, lang_tool, tdd_tool,
                                MultiValidateWithSlot(call.slot, call.code, lang_tool, tdd_tool))
    /\ UNCHANGED <<engine, world, template, cache, session, task, obs, renders>>

NextValidator == ValidateWithSlot

InitValidator ==
    /\ \E slot \in ValidatorSlots, code \in ValidatorCodes :
          call = ValidatorCall("input", slot, code, [status |-> "ok", text |-> ""],
                               [status |-> "ok", text |-> ""], Valid)
    /\ world = PoorWorld
    /\ engine = EngineOf([kind |-> "mock", responses |-> MockResponses], Some("ext"), NoneOpt,
                         NoneOpt, DefaultMaxRetries, FALSE, ContextNew)
    /\ template = OneSlotTemplate
    /\ cache = EmptyMap
    /\ session = EmptyMap
    /\ task = EmptyMap
    /\ obs = EmptyMap
    /\ renders = 0

SpecValidator == InitValidator /\ [][NextValidator]_vars

(***************************************************************************)
(* Properties.                                                             *)
(***************************************************************************)
MaxRetries == engine.config.max_retries
Healing(log) == SelectSeq(log, LAMBDA e : e.ev = "healing")
Last(q) == q[Len(q)]
\* every backend call of the run failed / returned a text the validator rejected
AllBackendErrors(t) == t.hist # <<>> /\ \A i \in DOMAIN t.hist : ~t.hist[i].ok
AllRejected(t) ==
    /\ t.hist # <<>>
    /\ \A i \in DOMAIN t.hist :
          t.hist[i].ok /\ (t.hist[i].verdict = "invalid" \/ t.hist[i].stuck)
\* attempts i < j generated the same text, with no generated text in between
SameTextInARow(t, i, j) ==
    /\ i < j /\ t.hist[i].ok /\ t.hist[j].ok /\ t.hist[i].text = t.hist[j].text
    /\ \A k \in (i + 1)..(j - 1) : ~t.hist[k].ok

\* C1: in every run of the generate-validate-heal loop for a slot, whatever
\* mix of backend errors, rejections and repeated texts occurs, the backend
\* is called at most max_retries + 1 times: a call is only made while the
\* attempt index, which every iteration raises by one, is at most
\* max_retries; and a loop that has ended has ended in a success or in an
\* error, never both.
C1_LoopBounded ==
    \A s \in Slots :
        LET t == task[s] IN
        /\ t.calls <= MaxRetries + 1
        /\ t.pc = "generate" => t.calls = t.attempt /\ t.attempt <= MaxRetries
        /\ t.pc = "awaiting" => t.calls = t.attempt + 1 /\ Len(t.hist) = t.attempt
        /\ t.pc = "done" =>
              /\ Len(t.hist) = t.calls
              /\ t.result.ok <=> t.result.err = NoErr
              /\ ~t.result.ok => t.result.err.type \in
                     {"ProviderError", "InjectionError", "MaxRetriesExceeded"}
C1_FullBudgetMixed ==
    \E s \in Slots :
        /\ task[s].pc = "done" /\ MaxRetries = MaxRetriesBound
        /\ task[s].calls = MaxRetries + 1
        /\ \E i, j \in DOMAIN task[s].hist :
              ~task[s].hist[i].ok /\ task[s].hist[j].verdict = "invalid"

\* C2: when every backend call of a run fails, then for every max_retries
\* the run ends only after exactly max_retries + 1 calls, its result is the
\* error of the last call, unwrapped, it wrote nothing to the cache and no
\* healing step was notified.
C2_BackendAlwaysFails ==
    \A s \in Slots :
        LET t == task[s] IN
        AllBackendErrors(t) =>
            /\ t.writes = <<>>
            /\ Healing(obs[s]) = <<>>
            /\ t.pc \in {"generate", "awaiting", "aborted"} => t.calls <= MaxRetries + 1
            /\ t.pc = "done" =>
                  /\ t.calls = MaxRetries + 1
                  /\ t.result = TaskErr(ProviderError(Last(t.hist).text))
                  /\ \A i \in 1..(Len(t.hist) - 1) :
                        t.hist[i].sleep_ms = engine.config.retry_backoff_ms * i
C2_ThreeFailures ==
    \E s \in Slots :
        /\ task[s].pc = "done" /\ AllBackendErrors(task[s])
        /\ MaxRetries = MaxRetriesBound /\ task[s].calls = MaxRetriesBound + 1
        /\ task[s].hist[1].text # Last(task[s].hist).text
        /\ IsSome(engine.observer) /\ IsSome(engine.cache) /\ IsSome(engine.validator)

\* C3 (as amended): with a validator configured, as soon as the backend
\* returns the text it returned the time before, the loop ends at that
\* attempt, without validating the text again and without using the rest of
\* the budget, with a stuck error that carries the slot's name and the
\* zero-based index of the aborting attempt, which is one less than the
\* number of attempts made.
C3_StuckCarriesAttemptIndex ==
    \A s \in Slots :
        LET t == task[s] IN
        \A i, j \in DOMAIN t.hist :
            SameTextInARow(t, i, j) =>
                /\ IsSome(engine.validator) /\ t.hist[i].verdict = "invalid"
                /\ j = Len(t.hist) /\ t.pc = "done" /\ t.calls = j
                /\ t.hist[j].stuck /\ t.hist[j].fmt = "none" /\ t.hist[j].verdict = "none"
                /\ t.result = TaskErr(MaxRetriesExceeded(template.slots[s].name, t.calls - 1,
                                                          StuckMessage))
\* C3 as the claim states it: the count is the number of attempts made
C3_StuckCarriesAttemptsMade ==
    \A s \in Slots :
        LET t == task[s] IN
        \A i, j \in DOMAIN t.hist :
            SameTextInARow(t, i, j) =>
                /\ t.pc = "done"
                /\ t.result.err.type = "MaxRetriesExceeded"
                /\ t.result.err.slot = template.slots[s].name
                /\ t.result.err.retries = t.calls
C3_StuckBeforeBudgetEnds ==
    \E s \in Slots :
        /\ task[s].pc = "done" /\ engine.provider.kind = "ext"
        /\ task[s].calls = 2 /\ MaxRetries = 2
        /\ Len(task[s].hist) = 2 /\ SameTextInARow(task[s], 1, 2)
        /\ task[s].result.err.retries = 1

\* C4: when the validator rejects the first generated text and accepts the
\* different second one, the loop succeeds after exactly two backend calls
\* with the second text as the validator's format returned it (the text as
\* generated when format failed), and exactly one healing step was notified
\* to the observer, with attempt number 1 and the first diagnostic.
C4_HealThenSucceed ==
    \A s \in Slots :
        LET t == task[s] IN
        (/\ engine.validator = Some("ext") /\ Len(t.hist) = 2
         /\ t.hist[1].ok /\ t.hist[1].verdict = "invalid"
         /\ t.hist[2].ok /\ t.hist[2].verdict = "valid") =>
            LET fo == ExtFormat(world, t.hist[2].text) IN
            /\ t.hist[2].text # t.hist[1].text
            /\ MaxRetries >= 1
            /\ t.pc = "done" /\ t.calls = 2
            /\ t.result = TaskOk(IF fo.ok THEN fo.val ELSE t.hist[2].text, FALSE)
            /\ Healing(obs[s]) =
                  IF IsSome(engine.observer)
                  THEN <<[ev |-> "healing", attempt |-> 1, text |-> t.hist[1].diag]>>
                  ELSE <<>>
C4_HealedAndReformatted ==
    \E s \in Slots :
        /\ engine.validator = Some("ext") /\ IsSome(engine.observer) /\ world.reformat
        /\ task[s].pc = "done" /\ Len(task[s].hist) = 2
        /\ task[s].hist[1].verdict = "invalid" /\ task[s].hist[1].diag = "d2"
        /\ task[s].hist[2].verdict = "valid" /\ task[s].hist[2].text = "x"
        /\ task[s].result.code = Reformatted("x")

\* C5 (as amended): with a validator that rejects every generated text and
\* a backend whose calls all succeed, render fails for every max_retries
\* with MaxRetriesExceeded naming the failing slot; its retries field is the
\* configured max_retries when the budget ran out, and the index of the
\* aborting attempt (at most max_retries) when a repeated text ended the
\* loop early.
C5_RejectedCarriesRetries ==
    \A s \in Slots :
        LET t == task[s] IN
        (IsSome(engine.validator) /\ t.pc = "done" /\ AllRejected(t)) =>
            /\ ~t.result.ok
            /\ t.result.err.type = "MaxRetriesExceeded"
            /\ t.result.err.slot = template.slots[s].name
            /\ t.result.err.retries =
                  IF Last(t.hist).stuck THEN t.calls - 1 ELSE MaxRetries
            /\ t.result.err.retries <= MaxRetries
            /\ ~Last(t.hist).stuck => t.calls = MaxRetries + 1
            /\ call.status = "returned" => ~call.result.ok
            /\ (call.status = "returned" /\ s \in call.seen) =>
                  call.result = Err(t.result.err)
\* C5 as the claim states it: retries is the configured max_retries
C5_RetriesIsMaxRetries ==
    \A s \in Slots :
        LET t == task[s] IN
        (IsSome(engine.validator) /\ t.pc = "done" /\ AllRejected(t)) =>
            /\ t.result.err.type = "MaxRetriesExceeded"
            /\ t.result.err.slot = template.slots[s].name
            /\ t.result.err.retries = MaxRetries
C5_BudgetExhausted ==
    \E s \in Slots :
        /\ engine.validator = Some("failing") /\ engine.provider.kind = "ext"
        /\ task[s].pc = "done" /\ AllRejected(task[s])
        /\ MaxRetries = MaxRetriesBound /\ task[s].calls = MaxRetriesBound + 1
        /\ ~Last(task[s].hist).stuck
        /\ call.status = "returned" /\ call.result = Err(task[s].result.err)

\* C6: when a cache is configured and holds an entry under the key derived
\* from the request's prompt, context, model and token limit, a generation
\* started for that request ends at once with the cached text, tagged as a
\* cache hit, and the backend is never called for it.
C6_CacheShortCircuit ==
    [][\A s \in Slots :
          /\ (/\ task[s].pc \in {"none", "spawned"}
              /\ task'[s].pc \in {"generate", "awaiting", "done"}
              /\ IsSome(engine.cache)
              /\ CacheKey(MakeRequest(template.slots[s], call.context_prompt))
                    \in DOMAIN cache) =>
                 /\ task'[s].pc = "done"
                 /\ task'[s].result =
                       TaskOk(cache[CacheKey(MakeRequest(template.slots[s],
                                                         call.context_prompt))], TRUE)
          /\ task'[s].result.cache_hit =>
                 /\ task'[s].calls = 0 /\ task'[s].hist = <<>> /\ task'[s].writes = <<>>
                 /\ task'[s].pc = "done"]_vars
C6_SecondRenderHits ==
    \E s \in Slots :
        /\ renders = 2 /\ task[s].pc = "done" /\ task[s].result.cache_hit
        /\ task[s].calls = 0 /\ task[s].result.code = "x\n"
        /\ call.status = "returned" /\ call.result.ok

\* C7: in render_incremental with no engine cache, a slot that the call has
\* reached was answered from the session without a backend call when its
\* (stable hash of the slot, stable hash of the global context) key was in
\* the session, and was generated by the backend when it was not; distinct
\* slot definitions, such as one slot before and after a prompt change, have
\* distinct keys; a call that succeeds has reached every slot, so it called
\* the backend exactly for the slots whose key was absent, zero times when
\* nothing had changed, and its output carries the session's text for every
\* other slot.
C7_SessionDecidesGeneration ==
    /\ \A a, b \in SlotUniverse : a # b => StableHashSlot(a) # StableHashSlot(b)
    /\ (call.op = "render_incremental" /\ call.status \in {"running", "returned"}
        /\ ~IsSome(engine.cache)) =>
          LET key(s) == <<StableHashSlot(template.slots[s]),
                          StableHashContext(engine.global_context)>>
              absent == {s \in Slots : key(s) \notin DOMAIN call.session0}
              invoked == {s \in Slots : task[s].calls > 0}
          IN  /\ invoked \subseteq absent
              /\ \A s \in Slots :
                    /\ (task[s].pc # "none" /\ s \notin absent) =>
                          /\ task[s].pc = "hit"
                          /\ call.injections[s] = call.session0[key(s)]
                    /\ (task[s].pc # "none" /\ s \in absent) =>
                          /\ task[s].pc \in {"generate", "awaiting", "done"}
                          /\ task[s].pc = "done" => s \in invoked
              /\ (call.status = "returned" /\ call.result.ok) =>
                    /\ invoked = absent
                    /\ call.result =
                          TemplateRender(template,
                              [s \in Slots |-> IF s \in absent THEN task[s].result.code
                                               ELSE call.session0[key(s)]])
                    /\ \A s \in absent : session[key(s)] = task[s].result.code
C7_OneSlotRegenerated ==
    /\ call.op = "render_incremental" /\ call.status = "returned" /\ call.result.ok
    /\ ~IsSome(engine.cache) /\ renders = 2
    /\ task["h"].pc = "done" /\ task["h"].calls = 1 /\ template.slots["h"].prompt = "p2"
    /\ task["f"].pc = "hit" /\ task["f"].calls = 0

\* C8: the session only grows.  Every step keeps every entry of the session
\* with its value; the session changes only when the call takes the text of
\* a slot it generated successfully, by exactly one new entry, that slot's
\* key with that text; and when the call takes a slot's failure it returns
\* and the session stays as it is, the entries of the slots generated
\* earlier in the call included.
C8_SessionGrowsMonotonically ==
    [][/\ \A k \in DOMAIN session : k \in DOMAIN session' /\ session'[k] = session[k]
       /\ session' # session =>
             \E s \in Slots :
                LET key == <<StableHashSlot(template.slots[s]),
                             StableHashContext(engine.global_context)>>
                IN  /\ task[s].pc = "done" /\ task[s].result.ok
                    /\ s \notin call.seen /\ s \in call'.seen
                    /\ key \notin DOMAIN session
                    /\ DOMAIN session' = DOMAIN session \cup {key}
                    /\ session'[key] = task[s].result.code
       /\ \A s \in Slots :
             (task[s].pc = "done" /\ ~task[s].result.ok
              /\ s \notin call.seen /\ s \in call'.seen) =>
                /\ session' = session
                /\ call'.status = "returned" /\ call'.result = Err(task[s].result.err)
       /\ \A k \in DOMAIN call'.session0 :
             k \in DOMAIN session' /\ session'[k] = call'.session0[k]]_vars
C8_FailedCallKeepsEarlierEntries ==
    /\ call.op = "render_incremental" /\ call.status = "returned" /\ ~call.result.ok
    /\ renders = 2 /\ call.session0 # EmptyMap
    /\ \E k \in DOMAIN session : k \notin DOMAIN call.session0
    /\ \E s \in Slots : task[s].pc = "done" /\ ~task[s].result.ok

\* C9: in parallel mode a render in which a slot's task ended in an error
\* returns an error, the error of the one failed task the join observed (it
\* observes no other after it), with no document; a render returns a
\* document only when every slot's task succeeded, and it is the document
\* assembled from all of their texts.
C9_ParallelAllOrNothing ==
    (call.op = "render" /\ engine.config.parallel /\ call.status = "returned") =>
        LET failed == {s \in Slots : task[s].pc = "done" /\ ~task[s].result.ok}
        IN  /\ failed # {} =>
                  /\ ~call.result.ok /\ call.result.val = ""
                  /\ \E s \in failed \cap call.seen :
                        /\ call.result = Err(task[s].result.err)
                        /\ failed \cap call.seen = {s}
                  /\ \A s \in Slots : task[s].pc \in {"done", "aborted"}
            /\ call.result.ok =>
                  /\ \A s \in Slots : task[s].pc = "done" /\ task[s].result.ok
                  /\ call.result =
                        TemplateRender(template, [s \in Slots |-> task[s].result.code])
C9_SiblingSucceededRenderFailed ==
    /\ call.op = "render" /\ engine.config.parallel /\ call.status = "returned"
    /\ template = TwoSlotTemplate
    /\ ~call.result.ok
    /\ \E s, u \in Slots :
          /\ task[s].pc = "done" /\ ~task[s].result.ok /\ s \in call.seen
          /\ task[u].pc = "done" /\ task[u].result.ok /\ u \in call.seen

\* the content with every marker replaced, scanning from the left
RECURSIVE Substitute(_, _, _)
Substitute(content, i, text) ==
    IF i > Len(content) THEN ""
    ELSE LET m == MatchAt(content, i)
         IN  IF m = <<>> THEN CharAt(content, i) \o Substitute(content, i + 1, text)
             ELSE text[m[1].name] \o Substitute(content, m[1].end + 1, text)

RECURSIVE FirstOccurrences(_, _)
FirstOccurrences(locs, seen) ==
    IF locs = <<>> THEN <<>>
    ELSE IF Head(locs).name \in seen THEN FirstOccurrences(Tail(locs), seen)
    ELSE <<Head(locs).name>> \o FirstOccurrences(Tail(locs), seen \cup {Head(locs).name})
DefinitionOrder(t) == FirstOccurrences(CapturesIter(t.content), {})

\* C11: in sequential mode the slots are generated in the order in which the
\* template defines them, one at a time: a slot's generation has started
\* only when the generation of every slot defined before it has finished
\* and been taken by the call, and no two generations are under way at once.
C11_SequentialDefinitionOrder ==
    (call.op = "render" /\ call.status = "running" /\ ~engine.config.parallel) =>
        LET order == DefinitionOrder(template) IN
        /\ \A i, j \in DOMAIN order :
              (i < j /\ task[order[j]].pc # "none") =>
                  task[order[i]].pc = "done" /\ order[i] \in call.seen
        /\ \A s, u \in Slots : (Active(s) /\ Active(u)) => s = u

\* C12: the attempts of one slot's loop are strictly sequential, in parallel
\* mode too: at most one backend call of a slot is in flight (calls issued
\* exceed outcomes recorded by at most one), and the loop is about to issue
\* attempt k+1 only when attempt k's outcome is recorded: a backend error,
\* or a generated text with the validator's rejection of it.
C12_AttemptsStrictlySequential ==
    \A s \in Slots :
        LET t == task[s] IN
        /\ t.calls - Len(t.hist) \in {0, 1}
        /\ t.pc = "awaiting" => t.calls = Len(t.hist) + 1
        /\ t.calls = Len(t.hist) + 1 => t.pc \in {"awaiting", "aborted"}
        /\ \A i \in DOMAIN t.hist : t.hist[i].attempt = i - 1
        /\ t.pc = "generate" =>
              /\ Len(t.hist) = t.attempt /\ t.calls = t.attempt
              /\ t.attempt > 0 =>
                    \/ ~Last(t.hist).ok
                    \/ /\ IsSome(engine.validator)
                       /\ Last(t.hist).verdict = "invalid"
                       /\ t.request.slot.prompt =
                             HealedPrompt(engine.config, Last(t.hist).prompt,
                                          Last(t.hist).diag)
C12_ParallelSlotsSequentialRetries ==
    /\ engine.config.parallel /\ call.status = "running"
    /\ \E s, u \in Slots :
          /\ s # u /\ task[s].pc = "awaiting" /\ task[u].pc = "awaiting"
          /\ task[s].attempt = 1 /\ Last(task[s].hist).verdict = "invalid"

(***************************************************************************)
(* Template::render against the content it was built from.                 *)
(***************************************************************************)
RenderReturned == call.op = "template_render" /\ call.status = "returned"
MarkerNames(t) == LET caps == CapturesIter(t.content) IN {caps[i].name : i \in DOMAIN caps}
\* the marker names render finds neither an injection nor a default for
MissingRequired(t, injections) ==
    {n \in MarkerNames(t) : n \notin DOMAIN injections /\ t.slots[n].required}
\* the text a marker's name stands for: the injection, else the slot's default
EffectiveText(t, injections) ==
    [n \in MarkerNames(t) |->
        IF n \in DOMAIN injections THEN injections[n] ELSE UnwrapOr(t.slots[n].default, "")]
\* the last marker of content whose name is in the set
LastMarkerIn(t, names) ==
    LET caps == CapturesIter(t.content)
        i == CHOOSE k \in DOMAIN caps :
                /\ caps[k].name \in names
                /\ \A j \in DOMAIN caps : caps[j].name \in names => j <= k
    IN  caps[i].name

\* C13: when the injection map lacks the name of a marker whose slot is
\* required, render returns SlotNotFound naming a slot that is missing (the
\* one whose marker comes last in the content) and no output; otherwise it
\* succeeds, every marker whose name is supplied is replaced by the supplied
\* text, also when its slot has a default, and every marker of an optional
\* slot that is not supplied is replaced by the slot's default, verbatim.
C13_MissingSlotErrorOrDefault ==
    RenderReturned =>
        LET missing == MissingRequired(template, call.injections)
        IN  IF missing # {}
            THEN /\ ~call.result.ok
                 /\ call.result.val = ""
                 /\ call.result.err = SlotNotFound(LastMarkerIn(template, missing))
            ELSE /\ call.result.ok
                 /\ call.result.err = NoErr
                 /\ call.result.val =
                        Substitute(template.content, 1,
                                   EffectiveText(template, call.injections))
\* an optional slot rendered from its default next to a supplied one
C13_DefaultNextToInjection ==
    /\ RenderReturned
    /\ template.content = "{{AI:a}}-{{AI:b:html}}"
    /\ ~template.slots["a"].required
    /\ DOMAIN call.injections = {"b"}
    /\ call.injections["b"] = "x"
    /\ call.result = Ok("DEF-x")

\* the content cut at the marker spans found in it: the characters between
\* pos and the k-th marker, the text of that marker's name, and so on
RECURSIVE SpliceFrom(_, _, _, _, _)
SpliceFrom(content, caps, k, pos, text) ==
    IF k > Len(caps) THEN SubSeq(content, pos, Len(content))
    ELSE SubSeq(content, pos, caps[k].start) \o text[caps[k].name]
             \o SpliceFrom(content, caps, k + 1, caps[k].end + 1, text)
RECURSIVE SpanGrowth(_, _, _)
SpanGrowth(caps, k, text) ==
    IF k > Len(caps) THEN 0
    ELSE Len(text[caps[k].name]) - (caps[k].end - caps[k].start) + SpanGrowth(caps, k + 1, text)

\* C14: when every marker's name is supplied, whatever the lengths of the
\* supplied texts (empty, shorter than, as long as or longer than the marker),
\* render returns the original content with each marker span replaced by the
\* text of its name and every character outside the spans kept in order, the
\* spans being those of the original content: a supplied text that itself
\* contains a marker is copied as it is.
C14_SplicesAtOriginalSpans ==
    (RenderReturned /\ MarkerNames(template) \subseteq DOMAIN call.injections) =>
        LET caps == CapturesIter(template.content)
        IN  /\ call.result = Ok(SpliceFrom(template.content, caps, 1, 1, call.injections))
            /\ Len(call.result.val) =
                  Len(template.content) + SpanGrowth(caps, 1, call.injections)
\* a longer text holding a marker, and an empty text, spliced in one render
C14_MarkerTextNotRescanned ==
    /\ RenderReturned
    /\ template.content = "{{AI:a}}-{{AI:b:html}}"
    /\ DOMAIN call.injections = {"a", "b"}
    /\ call.injections["a"] = "{{AI:b}} longer"
    /\ call.injections["b"] = ""
    /\ call.result = Ok("{{AI:b}} longer-")

Restrict(f, keys) == [x \in DOMAIN f \cap keys |-> f[x]]

\* C16: after Template::new and any sequence of with_slot, configure_slot,
\* with_name and with_metadata, every name found in a marker of the content
\* is a key of slots; a slot whose name is in no marker is kept in the
\* mapping, and render returns what it returns without that slot and without
\* any text supplied for it: the same output, or the same error, which never
\* names it.
C16_MarkerNamesHaveSlots ==
    /\ MarkerNames(template) \subseteq DOMAIN template.slots
    /\ call.op \in {"with_slot", "configure_slot"} =>
           DOMAIN call.injections \subseteq DOMAIN template.slots
    /\ RenderReturned =>
           LET used == MarkerNames(template)
               referenced == [template EXCEPT !.slots = Restrict(template.slots, used)]
           IN  /\ call.result = TemplateRender(referenced, Restrict(call.injections, used))
               /\ ~call.result.ok => call.result.err.slot \in used
\* a required slot z configured but in no marker, with text supplied for it,
\* and the render succeeds without that text
C16_UnreferencedSlotNotRendered ==
    /\ RenderReturned
    /\ template.content = "<div>{{AI:a}}</div>"
    /\ DOMAIN template.slots = {"a", "z"}
    /\ template.slots["z"].required
    /\ template.name = "page"
    /\ IsSome(template.metadata.language)
    /\ DOMAIN call.injections = {"a", "z"}
    /\ call.injections["a"] = "x"
    /\ call.result = Ok("<div>x</div>")

\* the names that occur in more than one marker of the content
RepeatedNames(t) ==
    LET caps == CapturesIter(t.content)
    IN  {caps[i].name : i \in {k \in DOMAIN caps : \E j \in DOMAIN caps : j # k /\ caps[j].name = caps[k].name}}

\* C17: a name that occurs in several markers has one entry in slots, under
\* that name: straight from Template::new it is the slot of the last of its
\* markers, after with_slot or configure_slot on that name its prompt is the
\* one configured last; and a successful render puts the same text, the
\* supplied one or else the default, in place of every one of its markers.
C17_RepeatedNameOneSlot ==
    \A n \in RepeatedNames(template) :
        LET caps == CapturesIter(template.content)
            last == CHOOSE k \in DOMAIN caps :
                       caps[k].name = n /\ \A j \in DOMAIN caps : caps[j].name = n => j <= k
        IN  /\ n \in DOMAIN template.slots
            /\ template.slots[n].name = n
            /\ call.op = "none" =>
                  /\ template.slots[n].prompt = "Generate code for: " \o n
                  /\ template.slots[n].kind =
                        (IF IsSome(caps[last].kind) THEN ParseKind(caps[last].kind[1])
                         ELSE Kind("Raw"))
            /\ (call.op \in {"with_slot", "configure_slot"} /\ n \in DOMAIN call.injections) =>
                  template.slots[n].prompt = call.injections[n]
            /\ (RenderReturned /\ call.result.ok) =>
                  call.result.val =
                      SpliceFrom(template.content, caps, 1, 1,
                                 EffectiveText(template, call.injections))
\* a name marked twice, configured by with_slot, rendered at both markers
C17_BothSpansSameText ==
    /\ RenderReturned
    /\ template.content = "{{AI:a}}{{AI:b}}{{AI:a}}"
    /\ DOMAIN template.slots = {"a", "b"}
    /\ template.slots["a"].prompt = "p2"
    /\ DOMAIN call.injections = {"a", "b"}
    /\ call.injections["a"] = "x"
    /\ call.injections["b"] = "12345678"
    /\ call.result = Ok("x12345678x")

\* the prompt after the feedback of the rejected attempts i.. of hist, each
\* appended when another attempt was left
RECURSIVE WithFeedback(_, _, _, _)
WithFeedback(config, prompt, hist, i) ==
    IF i > Len(hist) THEN prompt
    ELSE IF hist[i].verdict = "invalid" /\ hist[i].attempt < config.max_retries
    THEN WithFeedback(config,
                      prompt \o "\n\n" \o config.prompt_healing_feedback \o hist[i].diag,
                      hist, i + 1)
    ELSE WithFeedback(config, prompt, hist, i + 1)
StartedTask(s) == task[s].pc \in {"generate", "awaiting", "done"}

IsTerminalEvent(e) == e.ev \in {"success", "failure"}
\* a log that opens with on_start, holds healing steps only after it, and
\* holds a terminal notification at most once, as its last entry
LifecycleShape(log) ==
    /\ log[1].ev = "start"
    /\ \A i \in 2..Len(log) :
          \/ log[i].ev = "healing"
          \/ IsTerminalEvent(log[i]) /\ i = Len(log)

\* C20: with an observer attached, in sequential and in parallel mode: no
\* backend call is made for a slot before its on_start; its notifications
\* are on_start, then healing steps, then at most one terminal notification;
\* a finished generation has its terminal notification, on_success when it
\* succeeded and on_failure when it failed; and once the engine call has
\* returned every generation that was started has received its terminal
\* notification, the siblings of a failed slot included.
C20_ObserverLifecycle ==
    IsSome(engine.observer) =>
        \A s \in Slots :
            /\ task[s].calls > 0 => obs[s] # <<>>
            /\ obs[s] # <<>> => LifecycleShape(obs[s])
            /\ task[s].pc = "done" =>
                  /\ obs[s] # <<>>
                  /\ Last(obs[s]).ev = (IF task[s].result.ok THEN "success" ELSE "failure")
            /\ (call.status = "returned" /\ obs[s] # <<>>) => IsTerminalEvent(Last(obs[s]))

\* C21: the terminal error of a healing loop follows from how its last
\* attempt ended, whatever the earlier attempts did: a last attempt whose
\* backend call failed returns that backend error itself; a last attempt
\* whose text was judged Invalid returns MaxRetriesExceeded for the slot with
\* retries = max_retries, whose last_error is the text of the ValidationFailed
\* error built from that attempt's diagnostic.
C21_TerminalErrorFollowsLastAttempt ==
    \A s \in Slots :
        (task[s].pc = "done" /\ task[s].hist # <<>> /\ ~task[s].result.ok) =>
            LET t == task[s]
                a == Last(t.hist)
            IN  /\ ~a.ok =>
                      /\ t.result.err.type = "ProviderError"
                      /\ t.result.err.msg = a.text
                      /\ t.result.err = t.last_error[1]
                /\ (a.ok /\ a.verdict = "invalid") =>
                      /\ t.result.err.type = "MaxRetriesExceeded"
                      /\ t.result.err.slot = t.request.slot.name
                      /\ t.result.err.retries = MaxRetries
                      /\ t.last_error = Some(ValidationFailed(t.request.slot.name, a.diag))
                      /\ t.result.err.msg = ErrorToString(t.last_error[1])
\* a backend failure, then a rejection, then a backend failure that ends the loop
C21_RejectedThenBackendFails ==
    \E s \in Slots :
        /\ task[s].pc = "done" /\ Len(task[s].hist) = 3
        /\ ~task[s].hist[1].ok
        /\ task[s].hist[2].ok /\ task[s].hist[2].verdict = "invalid"
        /\ ~task[s].hist[3].ok
        /\ task[s].result.err.type = "ProviderError"

(***************************************************************************)
(* The tiered cache.                                                       *)
(***************************************************************************)
\* C22: get answers from the exact tier when it holds the key and consults
\* the similarity tier only when the exact tier misses; after set(k, v) the
\* exact tier holds v under k, a get(k) returns v from the exact tier alone,
\* and the similarity tier holds an entry for k with v.
C22_TieredGetSet ==
    /\ call.op = "get" =>
          /\ call.prompt \in DOMAIN cache.exact =>
                /\ call.result = Some(cache.exact[call.prompt])
                /\ call.consulted = {"exact"}
          /\ "semantic" \in call.consulted => call.prompt \notin DOMAIN cache.exact
    /\ call.op = "set" =>
          /\ call.prompt \in DOMAIN cache.exact
          /\ cache.exact[call.prompt] = call.response
          /\ \A embedded \in BOOLEAN :
                TieredGet(cache, call.prompt, embedded) =
                    {[result |-> Some(call.response), consulted |-> {"exact"}]}
          /\ call.prompt \in DOMAIN cache.semantic
          /\ cache.semantic[call.prompt].response = call.response

(***************************************************************************)
(* The TOON codec.                                                         *)
(***************************************************************************)
\* C23: deserialize(serialize(v)) is Ok(v) for every value tree v built from
\* nested objects, arrays of objects of one shape, arrays of scalars, and the
\* scalars null, true, false, numbers and strings.
C23_ToonRoundTrip ==
    call.op = "deserialize" => call.result = Some(Ok(call.value))

\* C25: generate_all compresses the context exactly when
\* AetherConfig::should_use_toon says so for the length of the base context:
\* always when toon_enabled is set, otherwise when a threshold is set and
\* the length is at least the threshold (a length equal to the threshold
\* compresses), and never when compression is off and no threshold is set.
BaseContextOf(eng, extra) ==
    IF IsSome(extra) THEN ToPrompt(eng.global_context) \o "\n" \o ToPrompt(extra[1])
    ELSE ToPrompt(eng.global_context)
Compressed == StartsWith(call.context_prompt, engine.config.prompt_toon_header)
RECURSIVE FeedbackBlocks(_, _, _)
FeedbackBlocks(config, hist, n) ==
    IF n = 0 THEN ""
    ELSE FeedbackBlocks(config, hist, n - 1)
         \o (IF hist[n].ok /\ hist[n].verdict = "invalid"
             THEN "\n\n" \o config.prompt_healing_feedback \o hist[n].diag
             ELSE "")

\* C26: the prompt sent on an attempt is the original slot prompt followed by
\* the feedback blocks (configured prefix, then the raw diagnostic) of all
\* earlier Invalid attempts in attempt order; after an Invalid attempt the
\* next prompt is the previous one with that attempt's block appended, and
\* after a backend error the next prompt is the previous one unchanged.
C26_FeedbackAccumulates ==
    \A s \in Slots :
        LET hist == task[s].hist
        IN  /\ \A k \in 1..Len(hist) :
                  /\ hist[k].attempt = k - 1
                  /\ hist[k].prompt = template.slots[s].prompt
                                        \o FeedbackBlocks(engine.config, hist, k - 1)
            /\ \A k \in 1..(Len(hist) - 1) :
                  /\ ~hist[k].ok => hist[k + 1].prompt = hist[k].prompt
                  /\ (hist[k].ok /\ hist[k].verdict = "invalid") =>
                        hist[k + 1].prompt = hist[k].prompt \o "\n\n"
                                             \o engine.config.prompt_healing_feedback
                                             \o hist[k].diag
            /\ (task[s].pc \in {"generate", "awaiting"} /\ hist # <<>>) =>
                  task[s].request.slot.prompt =
                      template.slots[s].prompt \o FeedbackBlocks(engine.config, hist, Len(hist))
\* a third attempt sent after two rejections with different diagnostics
C26_TwoBlocksInOrder ==
    \E s \in Slots :
        /\ Len(task[s].hist) = 3
        /\ task[s].hist[1].verdict = "invalid" /\ task[s].hist[1].diag = "d2"
        /\ task[s].hist[2].verdict = "invalid" /\ task[s].hist[2].diag = "d1"
        /\ task[s].hist[3].prompt =
              template.slots[s].prompt
              \o "\n\n" \o engine.config.prompt_healing_feedback \o "d2"
              \o "\n\n" \o engine.config.prompt_healing_feedback \o "d1"

\* a finished generation that ran the loop to an accepted text
AcceptedByLoop(t) == t.pc = "done" /\ t.result.ok /\ ~t.result.cache_hit

\* C27: the engine writes to the cache only text it accepted.  A step
\* changes the cache only when a generation leaves the loop with an accepted
\* text, and then it sets the entry of the task's key to that text; a
\* generation that ends in any error, or in a cache hit, leaves the cache as
\* it was.  Each generation writes exactly once when it accepted a text and
\* never otherwise, and the text written is the formatted text when a
\* validator is configured and the backend's text when none is.
C27_CacheWrittenOnAcceptanceOnly ==
    /\ [][/\ cache' # cache => \E s \in Slots : task'[s] # task[s]
          /\ \A s \in Slots : task'[s] # task[s] =>
                IF /\ task[s].pc = "awaiting" /\ AcceptedByLoop(task'[s])
                   /\ IsSome(engine.cache)
                THEN cache' = Put(cache, task'[s].cache_key[1], task'[s].result.code)
                ELSE cache' = cache]_vars
    /\ [](\A s \in Slots :
            LET t == task[s]
            IN  /\ t.writes = IF AcceptedByLoop(t) /\ IsSome(engine.cache)
                              THEN << <<t.cache_key[1], t.result.code>> >> ELSE <<>>
                /\ AcceptedByLoop(t) =>
                      LET a == Last(t.hist)
                      IN  /\ a.ok /\ ~a.stuck /\ a.verdict \in {"valid", "none"}
                          /\ engine.validator = NoneOpt => t.result.code = a.text
                          /\ engine.validator = Some("ext") =>
                                /\ a.verdict = "valid"
                                /\ t.result.code = ApplyFormat(a.text, ExtFormat(world, a.text)))
\* a text accepted after a rejection, reformatted, and written to the cache
C27_FormattedTextCached ==
    \E s \in Slots :
        /\ AcceptedByLoop(task[s]) /\ IsSome(engine.cache)
        /\ Len(task[s].hist) = 2
        /\ engine.validator = Some("ext")
        /\ Last(task[s].hist).text = "x"
        /\ task[s].result.code = Reformatted("x")
        /\ task[s].cache_key[1] \in DOMAIN cache
        /\ cache[task[s].cache_key[1]] = Reformatted("x")

\* the cache key of the request generate_all builds for a slot of the template
OriginalKey(s) == CacheKeyOf(MakeRequest(template.slots[s], call.context_prompt))
NotStarted(t) == t.pc \in {"none", "spawned"}
\* an accepted text that followed at least one rejection
AcceptedAfterHealing(t) ==
    AcceptedByLoop(t) /\ \E i \in 1..Len(t.hist) : t.hist[i].verdict = "invalid"

\* C28: the cache key of a generation is that of the request it was given,
\* with the template's prompt, and stays so while healing rewrites the
\* working prompt; an accepted text, healed or not, is written under that
\* key; and a generation that starts while the cache holds the key of its
\* request returns the stored text as a cache hit without a backend call.
C28_KeyOfOriginalPrompt ==
    /\ [](\A s \in Slots :
            (StartedTask(s) /\ IsSome(engine.cache)) =>
                /\ task[s].cache_key = Some(OriginalKey(s))
                /\ \A i \in 1..Len(task[s].writes) : task[s].writes[i][1] = OriginalKey(s)
                /\ AcceptedAfterHealing(task[s]) =>
                      /\ task[s].request.slot.prompt # template.slots[s].prompt
                      /\ task[s].writes = << <<OriginalKey(s), task[s].result.code>> >>)
    /\ [][\A s \in Slots :
            (/\ NotStarted(task[s]) /\ StartedTask(s)'
             /\ IsSome(engine.cache) /\ OriginalKey(s)' \in DOMAIN cache) =>
                /\ task'[s].pc = "done"
                /\ task'[s].result = TaskOk(cache[OriginalKey(s)'], TRUE)
                /\ task'[s].calls = 0 /\ task'[s].hist = <<>>]_vars
\* slot h accepted a text on its second attempt, after a rejection; slot f,
\* with the same prompt, then got that text from the cache
C28_HealedTextHit ==
    /\ ~engine.config.parallel
    /\ AcceptedByLoop(task["h"]) /\ Len(task["h"].hist) = 2
    /\ task["h"].hist[1].verdict = "invalid"
    /\ task["h"].request.slot.prompt # template.slots["h"].prompt
    /\ task["f"].pc = "done"
    /\ task["f"].result = TaskOk(task["h"].result.code, TRUE)
    /\ task["f"].calls = 0

\* C29: a generation that ends as a cache hit made no attempt: the
\* validator's format and validate were not called on the text (no attempt
\* is on record), and no backend call was made, validator configured or not.
\* The key of a generation is the key of a plain slot of any other name with
\* the same prompt, so slots that differ in name, kind and constraints but
\* not in prompt share one key under one context.
C29_HitBypassesValidator ==
    \A s \in Slots :
        /\ (task[s].pc = "done" /\ task[s].result.cache_hit) =>
              /\ task[s].result.ok
              /\ task[s].hist = <<>> /\ task[s].calls = 0 /\ task[s].writes = <<>>
              /\ IsSome(engine.cache)
              /\ task[s].cache_key[1] \in DOMAIN cache
              /\ task[s].result.code = cache[task[s].cache_key[1]]
        /\ (StartedTask(s) /\ IsSome(engine.cache)) =>
              /\ task[s].cache_key =
                    Some(CacheKeyOf(MakeRequest(SlotNew("content", template.slots[s].prompt),
                                                call.context_prompt)))
              /\ \A r \in Slots :
                    (StartedTask(r) /\ template.slots[r].prompt = template.slots[s].prompt) =>
                        task[r].cache_key = task[s].cache_key
\* with a validator configured, the Function slot with a test harness
\* received from the cache the text that was validated for the plain slot
C29_UnvalidatedTextForHarnessSlot ==
    /\ engine.validator = Some("ext")
    /\ AcceptedByLoop(task["h"]) /\ Last(task["h"].hist).verdict = "valid"
    /\ task["f"].pc = "done" /\ task["f"].result = TaskOk(task["h"].result.code, TRUE)
    /\ task["f"].hist = <<>>
    /\ template.slots["f"].kind # template.slots["h"].kind
    /\ template.slots["f"].constraints # template.slots["h"].constraints
    /\ IsSome(template.slots["f"].constraints[1].test_harness)
    /\ call.status = "returned" /\ call.result.ok

BackendCalls == task["h"].calls + task["f"].calls
BothStarted == StartedTask("h") /\ StartedTask("f")
IsHit(t) == t.pc = "done" /\ t.result.ok /\ t.result.cache_hit

\* C30 as stated: in parallel mode a task that accepts a text overwrites
\* whatever the cache holds under its key, and in sequential mode, on an
\* engine with an empty cache, once both slots of one key were visited the
\* second was a hit and the backend was invoked once.
C30_SequentialOneBackendCall ==
    /\ (engine.config.parallel /\ IsSome(engine.cache)
          /\ AcceptedByLoop(task["h"]) /\ AcceptedByLoop(task["f"])) =>
            cache[OriginalKey("h")] \in {task["h"].result.code, task["f"].result.code}
    /\ (~engine.config.parallel /\ IsSome(engine.cache) /\ renders = 1 /\ BothStarted) =>
          /\ \E s \in Slots : IsHit(task[s])
          /\ BackendCalls = 1

\* C30, amended: in parallel mode a task that accepts a text overwrites
\* whatever the cache holds under its key, so after two tasks of one key
\* both ran the loop the cache holds the text of the one that wrote last; in
\* sequential mode, once both slots of one key were visited, the second was
\* a hit that made no backend call and returned the first one's text, and
\* the backend calls are those of the first slot's loop, one per attempt.
C30_ProbeAndWriteNotAtomic ==
    /\ [][\A s \in Slots :
            (/\ engine.config.parallel /\ IsSome(engine.cache)
             /\ task[s].pc = "awaiting" /\ AcceptedByLoop(task'[s])) =>
                /\ OriginalKey(s) \in DOMAIN cache'
                /\ cache'[OriginalKey(s)] = task'[s].result.code]_vars
    /\ []((engine.config.parallel /\ IsSome(engine.cache)
            /\ AcceptedByLoop(task["h"]) /\ AcceptedByLoop(task["f"])) =>
              cache[OriginalKey("h")] \in {task["h"].result.code, task["f"].result.code})
    /\ []((~engine.config.parallel /\ IsSome(engine.cache) /\ BothStarted) =>
              \E s \in Slots : \E r \in Slots \ {s} :
                  /\ IsHit(task[s]) /\ task[s].calls = 0
                  /\ task[r].pc = "done" /\ task[r].result.ok
                  /\ task[s].result.code = task[r].result.code
                  /\ BackendCalls = Len(task[r].hist)
                  /\ (renders = 1 => AcceptedByLoop(task[r]) /\ BackendCalls >= 1))
\* two parallel tasks of one key both missed, both called the backend and
\* accepted different texts; the cache holds the text of f, not h's
C30_BothMissLastWriterWins ==
    /\ engine.config.parallel /\ IsSome(engine.cache)
    /\ AcceptedByLoop(task["h"]) /\ AcceptedByLoop(task["f"])
    /\ task["h"].calls >= 1 /\ task["f"].calls >= 1
    /\ task["h"].cache_key = task["f"].cache_key
    /\ task["h"].result.code # task["f"].result.code
    /\ cache[OriginalKey("f")] = task["f"].result.code

InvalidAttempts(hist) == SelectSeq(hist, LAMBDA a : a.ok /\ a.verdict = "invalid")

\* C31: an attempt on which the validator itself failed is the last of its
\* loop, whatever budget remains: the generation is finished with the
\* validator's error as it is, the backend was called once per attempt on
\* record and not again, the cache was not written by the generation, and
\* the observer received a healing step for the rejected attempts only, none
\* for the attempt that ended in the validator's error.
C31_ValidatorErrorEndsLoop ==
    \A s \in Slots :
        LET t == task[s]
        IN  /\ \A i \in 1..Len(t.hist) : t.hist[i].verdict = "verr" => i = Len(t.hist)
            /\ (t.hist # <<>> /\ Last(t.hist).verdict = "verr") =>
                  /\ t.pc = "done" /\ ~t.result.ok
                  /\ t.result.err \in {InjectionError(m) : m \in world.verrs}
                  /\ t.calls = Len(t.hist)
                  /\ t.writes = <<>>
                  /\ IsSome(t.cache_key) => t.cache_key[1] \notin DOMAIN cache
                  /\ IsSome(engine.observer) =>
                        /\ Len(Healing(obs[s])) = Len(InvalidAttempts(t.hist))
                        /\ Last(obs[s]) = OnFailure(t.result.err)
                        /\ \A i \in 1..Len(obs[s]) :
                              obs[s][i].ev = "healing" => obs[s][i].attempt < Len(t.hist)
\* the validator failed on the first of three allowed attempts
C31_ValidatorErrorWithBudgetLeft ==
    \E s \in Slots :
        /\ engine.config.max_retries = 2 /\ IsSome(engine.observer) /\ IsSome(engine.cache)
        /\ Len(task[s].hist) = 1 /\ task[s].hist[1].verdict = "verr"
        /\ task[s].pc = "done" /\ task[s].calls = 1
        /\ Healing(obs[s]) = <<>>
        /\ call.status = "returned" /\ call.result = Err(InjectionError("v1"))

\* the attempts of a history whose backend call returned a text and that
\* were not aborted as stuck
RECURSIVE LastGenerated(_, _)
LastGenerated(hist, n) ==
    IF n = 0 THEN NoneOpt
    ELSE IF hist[n].ok THEN Some(hist[n].text)
    ELSE LastGenerated(hist, n - 1)

\* C32: an attempt whose backend call returned a text is aborted as stuck
\* exactly when that raw text equals the raw text of the most recent earlier
\* attempt whose backend call returned a text, backend errors in between
\* not counting and the formatter's output playing no part; the aborted
\* attempt is neither formatted nor validated, and the text the loop
\* remembers is always the raw text of the latest successful backend call.
C32_StuckComparesRawTexts ==
    \A s \in Slots :
        LET t == task[s]
        IN  /\ \A j \in 1..Len(t.hist) :
                  /\ t.hist[j].ok =>
                        (t.hist[j].stuck <=>
                            LastGenerated(t.hist, j - 1) = Some(t.hist[j].text))
                  /\ ~t.hist[j].ok => ~t.hist[j].stuck
                  /\ t.hist[j].stuck =>
                        /\ j = Len(t.hist) /\ t.pc = "done" /\ ~t.result.ok
                        /\ t.hist[j].fmt = "none" /\ t.hist[j].verdict = "none"
            /\ (t.hist # <<>> /\ ~Last(t.hist).stuck) =>
                  t.previous_code = LastGenerated(t.hist, Len(t.hist))
\* x was reformatted and rejected, the backend then failed, then returned x
\* again: reported as stuck
C32_StuckAcrossBackendError ==
    \E s \in Slots :
        /\ Len(task[s].hist) = 3
        /\ task[s].hist[1].ok /\ task[s].hist[1].text = "x"
        /\ task[s].hist[1].fmt = "ok" /\ task[s].hist[1].code = Reformatted("x")
        /\ task[s].hist[1].verdict = "invalid"
        /\ ~task[s].hist[2].ok
        /\ task[s].hist[3].ok /\ task[s].hist[3].text = "x" /\ task[s].hist[3].stuck
        /\ task[s].result.err = StuckError(task[s].request.slot, 2)

\* C33: an attempt on which the validator's format failed goes on with the
\* backend's text as it is: that text is what validate_with_slot is given,
\* and when it is accepted it is the text returned and written to the cache;
\* the format failure is not an error of the generation and takes no attempt
\* of its own (attempt numbers and backend calls run on one per attempt).
C33_FormatIsBestEffort ==
    \A s \in Slots :
        LET t == task[s]
        IN  /\ \A j \in 1..Len(t.hist) :
                  /\ t.hist[j].attempt = j - 1
                  /\ t.hist[j].fmt = "err" =>
                        /\ t.hist[j].ok /\ IsSome(engine.validator)
                        /\ t.hist[j].code = t.hist[j].text
                        /\ t.hist[j].verdict \in {"valid", "invalid", "verr"}
            /\ t.pc = "done" => t.calls = Len(t.hist)
            /\ (t.pc = "done" /\ t.hist # <<>> /\ Last(t.hist).fmt = "err") =>
                  LET a == Last(t.hist)
                  IN  /\ a.verdict = "valid" =>
                            /\ t.result = TaskOk(a.text, FALSE)
                            /\ IsSome(engine.cache) =>
                                  /\ t.writes = << <<t.cache_key[1], a.text>> >>
                                  /\ cache[t.cache_key[1]] = a.text
                      /\ a.verdict = "invalid" =>
                            t.result.err = FinalError(engine.config, t.request.slot,
                                                      Some(ValidationFailed(t.request.slot.name, a.diag)))
                      /\ a.verdict = "verr" => t.result.err.type = "InjectionError"
\* the formatter failed on y; y was validated, accepted on the first
\* attempt, returned and cached
C33_UnformattedTextAccepted ==
    \E s \in Slots :
        /\ task[s].pc = "done" /\ Len(task[s].hist) = 1
        /\ task[s].hist[1].fmt = "err" /\ task[s].hist[1].text = "y"
        /\ task[s].hist[1].verdict = "valid"
        /\ task[s].result = TaskOk("y", FALSE)
        /\ IsSome(engine.cache) /\ cache[task[s].cache_key[1]] = "y"
        /\ engine.config.max_retries = 0

FailedTask(s) == task[s].pc = "done" /\ ~task[s].result.ok
Failures(log) == SelectSeq(log, LAMBDA e : e.ev = "failure")

\* C34: in a sequential render, once the generation of a slot has ended in
\* an error no other slot is started: a slot not yet processed stays so
\* until the next engine call, with no backend call and no notification;
\* the render returns the error of the failed slot, which is the only slot
\* that failed and the only one whose observer log holds on_failure.
C34_SequentialFailFast ==
    /\ [][(/\ call.op = "render" /\ ~engine.config.parallel /\ renders' = renders
           /\ \E s \in Slots : FailedTask(s)) =>
              \A r \in Slots : task[r].pc = "none" =>
                  /\ task'[r] = task[r] /\ obs'[r] = obs[r]]_vars
    /\ []((call.op = "render" /\ ~engine.config.parallel) =>
            \A s \in Slots : FailedTask(s) =>
                /\ \A r \in Slots \ {s} :
                      /\ ~FailedTask(r)
                      /\ Failures(obs[r]) = <<>>
                      /\ task[r].pc = "none" => (task[r].calls = 0 /\ obs[r] = <<>>)
                      /\ task[r].pc \in {"none", "done"}
                /\ IsSome(engine.observer) =>
                      Failures(obs[s]) = <<OnFailure(task[s].result.err)>>
                /\ call.status = "returned" =>
                      call.result = Err(task[s].result.err))
    /\ []((call.op = "render" /\ ~engine.config.parallel
             /\ call.status = "returned" /\ ~call.result.ok) =>
               \E s \in Slots : FailedTask(s))
\* the first slot of a two-slot template failed: the render returned its
\* error and the other slot was never started
C34_SecondSlotNeverStarted ==
    /\ call.op = "render" /\ ~engine.config.parallel /\ IsSome(engine.observer)
    /\ call.status = "returned" /\ ~call.result.ok
    /\ \E s \in Slots : \E r \in Slots \ {s} :
          /\ FailedTask(s) /\ call.result = Err(task[s].result.err)
          /\ Len(Failures(obs[s])) = 1
          /\ task[r].pc = "none" /\ task[r].calls = 0 /\ obs[r] = <<>>

\* C35: engine.render generates every slot of template.slots, referenced by
\* a marker or not: a render returns Ok only after every slot's generation
\* succeeded, each by a backend call or a cache hit, and on an empty cache
\* by a backend call; the text generated for an unreferenced slot is in the
\* injections and not in the output; and when the generation of any slot,
\* an unreferenced one included, has failed and been taken, the render has
\* returned that slot's error.
C35_EverySlotGenerated ==
    call.op = "render" =>
        /\ (call.status = "returned" /\ call.result.ok) =>
              /\ DOMAIN call.injections = DOMAIN template.slots
              /\ \A s \in DOMAIN template.slots :
                    /\ task[s].pc = "done" /\ task[s].result.ok
                    /\ call.injections[s] = task[s].result.code
                    /\ task[s].result.cache_hit \/ task[s].calls >= 1
                    /\ (renders = 1 \/ ~IsSome(engine.cache)) => task[s].calls >= 1
              /\ call.result =
                    TemplateRender(template,
                                   Restrict(call.injections, MarkerNames(template)))
        /\ \A s \in DOMAIN template.slots :
              (FailedTask(s) /\ s \in call.seen) =>
                  /\ call.status = "returned"
                  /\ call.result = Err(task[s].result.err)
\* the referenced slot was generated, the unreferenced slot f failed, and
\* the render returned f's error
C35_UnreferencedSlotFailsRender ==
    /\ call.op = "render" /\ call.status = "returned"
    /\ "f" \notin MarkerNames(template) /\ "f" \in DOMAIN template.slots
    /\ task["content"].pc = "done" /\ task["content"].result.ok
    /\ "content" \in DOMAIN call.injections
    /\ FailedTask("f") /\ task["f"].calls >= 1
    /\ call.result = Err(task["f"].result.err)

TddSuffix(eng) == IF IsSome(eng.validator) THEN eng.config.prompt_tdd_notice ELSE ""

\* C36: in render_with_context the context string of every backend request
\* is the call's context string; with compression active it is the TOON
\* header, the TOON encoding of the engine's global context and the TOON
\* note (then the test-mode notice when a validator is configured), a text
\* in which the per-call context does not occur; without compression it is
\* the global context's prompt text, a newline and the per-call context's
\* prompt text.
C36_CompressedContextIsGlobalOnly ==
    call.op = "render_with_context" =>
        /\ \A s \in Slots : StartedTask(s) =>
              task[s].request.context = Some(call.context_prompt)
        /\ Compressed =>
              call.context_prompt =
                  engine.config.prompt_toon_header \o "\n"
                  \o ToonSerializeContext(engine.global_context) \o "\n\n"
                  \o engine.config.prompt_toon_note \o TddSuffix(engine)
        /\ ~Compressed =>
              call.context_prompt =
                  ToPrompt(engine.global_context) \o "\n" \o ToPrompt(call.extra[1])
                  \o TddSuffix(engine)
\* the per-call context lifted the base context to the threshold: the
\* request was sent with the compressed global context, which has no
\* framework, although the per-call context names one
C36_ExtraOnlyTipsTheDecision ==
    /\ call.op = "render_with_context"
    /\ ~engine.config.toon_enabled /\ engine.config.auto_toon_threshold = Some(17)
    /\ engine.global_context = ContextNew
    /\ call.extra = Some(WithFramework(ContextNew, "react"))
    /\ Compressed
    /\ task["content"].calls >= 1
    /\ task["content"].request.context = Some(call.context_prompt)
    /\ ~ShouldUseToon(engine.config, Len(ToPrompt(engine.global_context)))

\* the language check MultiValidator picks: by the declared kind for
\* JavaScript, none for Html, Css and Raw, else by what the text contains
ChosenCheck(slot, code) ==
    IF slot.kind.tag = "JavaScript" THEN "js"
    ELSE IF slot.kind.tag \in {"Html", "Css", "Raw"} THEN "none"
    ELSE IF Contains(code, "def ") \/ (Contains(code, "import ") /\ Contains(code, ":"))
    THEN "python"
    ELSE IF Contains(code, "function ") \/ Contains(code, "const ") \/ Contains(code, "=>")
    THEN "js"
    ELSE "rust"
LanguageCheck(slot, code, tool) ==
    CASE ChosenCheck(slot, code) = "js" -> JsValidate(slot.kind, code, tool)
      [] ChosenCheck(slot, code) = "python" -> PythonValidate(slot.kind, code, tool)
      [] ChosenCheck(slot, code) = "rust" -> RustValidate(slot.kind, code, tool)
      [] OTHER -> Valid
HasHarness(slot) == IsSome(slot.constraints) /\ IsSome(slot.constraints[1].test_harness)
IsValid(r) == r.ok /\ r.valid

\* C37: MultiValidator::validate_with_slot returns Valid exactly when the
\* language check chosen for the slot is Valid and, for a slot with a test
\* harness, the harness run succeeds; an Invalid language check is the
\* result whatever the harness run would give; and after a Valid language
\* check, or for a kind with no language check, the result for a slot with
\* a harness is the result of the harness run.
C37_LanguageCheckThenHarness ==
    call.op = "validate_with_slot" =>
        LET lang == LanguageCheck(call.slot, call.code, call.lang_tool)
        IN  /\ IsValid(call.result) <=>
                  /\ IsValid(lang)
                  /\ HasHarness(call.slot) => call.tdd_tool.status = "ok"
            /\ (lang.ok /\ ~lang.valid) => call.result = lang
            /\ ~lang.ok => call.result = lang
            /\ (IsValid(lang) /\ HasHarness(call.slot)) =>
                  call.result = TddValidateWithSlot(call.slot, call.code, call.tdd_tool)
            /\ (IsValid(lang) /\ HasHarness(call.slot) /\ call.tdd_tool.status = "fail") =>
                  call.result.ok /\ ~call.result.valid
            /\ (IsValid(lang) /\ ~HasHarness(call.slot)) => call.result = Valid
\* a Raw slot, for which no language check exists, with a harness whose run
\* failed: Invalid with the harness output
C37_HarnessRunsForRawSlot ==
    /\ call.op = "validate_with_slot"
    /\ call.slot.kind = Kind("Raw") /\ HasHarness(call.slot)
    /\ call.lang_tool.status = "fail" /\ call.tdd_tool.status = "fail"
    /\ call.result = Invalid("TDD Test Failure:\nSTDOUT:\nE1\nSTDERR:\n")

\* C38: on a session miss of render_incremental the request sent to the
\* backend carries the context string render would send under the same
\* engine: the one generate_all builds, with TOON compression and the
\* test-mode notice when those apply.
C38_IncrementalRequestAsRender ==
    call.op = "render_incremental" =>
        \A s \in Slots : StartedTask(s) =>
            /\ task[s].request.context = Some(GenerateAllContext(engine, NoneOpt))
            /\ task[s].request.model = template.slots[s].model
            /\ task[s].request.max_tokens = template.slots[s].max_tokens
            /\ task[s].request.system_prompt = NoneOpt

\* an array of objects of one shape with a string cell that holds a comma
HasComma(v) == v.t = "str" /\ Contains(v.s, ",")
CommaRows(v) ==
    /\ v.t = "arr" /\ v.items # <<>>
    /\ \A i \in DOMAIN v.items : v.items[i].t = "obj"
    /\ \E i \in DOMAIN v.items : \E j \in DOMAIN v.items[i].fields :
          HasComma(v.items[i].fields[j].v)

\* C39: for an array of uniform objects with a string cell that holds a
\* comma, the encoding writes the comma as backslash-comma, and decoding the
\* encoding gives rows with as many cells as were written, the string with
\* its comma in the field it came from.
C39_TabularCommaInverts ==
    (call.op = "deserialize" /\ CommaRows(call.value)) =>
        /\ Contains(call.text, "\\,")
        /\ call.result[1].ok
        /\ LET decoded == call.result[1].val
           IN  /\ decoded.t = "arr"
               /\ Len(decoded.items) = Len(call.value.items)
               /\ \A i \in DOMAIN call.value.items :
                     LET row == call.value.items[i]
                     IN  /\ decoded.items[i].t = "obj"
                         /\ Len(decoded.items[i].fields) = Len(row.fields)
                         /\ \A j \in DOMAIN row.fields :
                               HasComma(row.fields[j].v) =>
                                   FieldGet(decoded.items[i].fields, row.fields[j].k)
                                       = Some(row.fields[j].v)

\* the healing notifications a history calls for: one per rejected attempt,
\* numbered by the attempt's place in the history
RECURSIVE HealingSteps(_, _)
HealingSteps(hist, n) ==
    IF n = 0 THEN <<>>
    ELSE HealingSteps(hist, n - 1) \o
         (IF hist[n].ok /\ hist[n].verdict = "invalid"
          THEN <<[ev |-> "healing", attempt |-> n, text |-> hist[n].diag]>>
          ELSE <<>>)

\* C40: the healing notifications an attached observer has received for a
\* slot are exactly one per attempt the validator rejected, the rejection of
\* the last allowed attempt included, in the order of the attempts, each
\* carrying the attempt's number counted from one and that attempt's
\* diagnostic, so the numbers rise strictly; an attempt that ended in a
\* backend error, in the stuck abort or in acceptance, and a cache hit,
\* add none.
C40_HealingStepPerRejection ==
    \A s \in Slots :
        LET t == task[s]
            steps == Healing(obs[s])
        IN  /\ steps = IF IsSome(engine.observer)
                       THEN HealingSteps(t.hist, Len(t.hist)) ELSE <<>>
            /\ \A i, j \in DOMAIN steps : i < j => steps[i].attempt < steps[j].attempt
            /\ \A i \in DOMAIN steps :
                  LET a == t.hist[steps[i].attempt]
                  IN  a.ok /\ ~a.stuck /\ a.verdict = "invalid" /\ a.diag = steps[i].text
            /\ (t.pc = "done" /\ t.result.ok /\ t.result.cache_hit) => steps = <<>>
\* a backend error, a rejection and the rejection of the last allowed attempt
C40_FinalRejectionNotified ==
    \E s \in Slots :
        /\ IsSome(engine.observer) /\ engine.config.max_retries = 2
        /\ task[s].pc = "done" /\ ~task[s].result.ok /\ Len(task[s].hist) = 3
        /\ ~task[s].hist[1].ok
        /\ task[s].hist[2].verdict = "invalid" /\ task[s].hist[3].verdict = "invalid"
        /\ Healing(obs[s]) = <<[ev |-> "healing", attempt |-> 2, text |-> task[s].hist[2].diag],
                               [ev |-> "healing", attempt |-> 3, text |-> task[s].hist[3].diag]>>

====
